---- MODULE Spec2Model ----
(***************************************************************************)
(* The runtime value and object model of rapidus: the older value model    *)
(* (src/vm/value.rs: Value, Property, ArrayValue) and the newer NaN-boxed  *)
(* one (src/vm/jsvalue/value.rs: Value2; src/vm/jsvalue/array.rs:          *)
(* ArrayObjectInfo).                                                       *)
(***************************************************************************)
EXTENDS Integers, Sequences, FiniteSets, TLC

(***************************************************************************)
(* Bounds of the model.                                                    *)
(***************************************************************************)
\* largest index (and, plus one, largest "length") an operation on the
\* ArrayValue is given
MaxIdx == 1
\* largest index (and, plus one, largest length) an operation on the
\* ArrayObjectInfo is given
MaxIdx2 == 3
\* longest element vector ArrayValue::new is given
MaxNew == 1

(***************************************************************************)
(* Strings.  A string is the sequence of its characters, each a one-       *)
(* character TLA+ string.                                                  *)
(***************************************************************************)
Digits == <<"0", "1", "2", "3", "4", "5", "6", "7", "8", "9">>

DigitChar(d) == Digits[d + 1]

IsDigit(c) == \E d \in 0..9 : DigitChar(d) = c

DigitVal(c) == CHOOSE d \in 0..9 : DigitChar(d) = c

\* char::is_whitespace on the characters of the modelled alphabet
is_whitespace(c) == c \in {" ", "\t", "\n", "\r"}

STR_length == <<"l", "e", "n", "g", "t", "h">>

STR_proto == <<"_", "_", "p", "r", "o", "t", "o", "_", "_">>

STR_constructor == <<"c", "o", "n", "s", "t", "r", "u", "c", "t", "o", "r">>

(***************************************************************************)
(* f64.  A number is NaN, an infinity, or a finite value                   *)
(* (-1)^neg * (hi * 2^16 + lo + (half ? 1/2 : 0)): the multiples of 1/2,   *)
(* which f64 holds exactly; the two limbs carry magnitudes up to and       *)
(* beyond 2^32.  Both zeros are values (neg tells them apart).             *)
(***************************************************************************)
B16 == 256 * 256

NaN == [k |-> "nan", neg |-> FALSE, hi |-> 0, lo |-> 0, half |-> FALSE]

Inf(neg) == [k |-> "inf", neg |-> neg, hi |-> 0, lo |-> 0, half |-> FALSE]

Fin(neg, hi, lo, half) == [k |-> "fin", neg |-> neg, hi |-> hi, lo |-> lo, half |-> half]

\* a finite f64 of magnitude 2^63 or more, which no i64 holds; hi and lo
\* are the low 32 bits of the magnitude
Big(neg, hi, lo) == [k |-> "big", neg |-> neg, hi |-> hi, lo |-> lo, half |-> FALSE]

\* what `x as i64` yields for an x that no i64 holds (NaN, an infinity, a
\* magnitude of 2^63 or more): the cast is undefined for such an x in the
\* toolchain of these sources, and a build yields the saturated value or
\* the i64::MIN that the conversion instruction of x86 leaves
CastOutcomes == {"saturate", "indefinite"}

\* the f64 of a small integer literal
F(n) == Fin(n < 0, 0, IF n < 0 THEN -n ELSE n, FALSE)

NegZero == Fin(TRUE, 0, 0, FALSE)

Half == Fin(FALSE, 0, 0, TRUE)

is_nan(f) == f.k = "nan"

is_infinite(f) == f.k = "inf"

IsZero(f) == f.k = "fin" /\ f.hi = 0 /\ f.lo = 0 /\ ~f.half

\* l == r on f64
f64_eq(l, r) == /\ ~is_nan(l)
                /\ ~is_nan(r)
                /\ \/ IsZero(l) /\ IsZero(r)
                   \/ l = r

\* n >= 0.0
f64_ge0(n) == ~is_nan(n) /\ (IsZero(n) \/ ~n.neg)

\* n < 0.0
f64_lt0(n) == ~is_nan(n) /\ ~IsZero(n) /\ n.neg

\* n as usize, for a finite n >= 0 below 2^31 (the index range of the model)
as_usize(n) == n.hi * B16 + n.lo

\* usize as f64
usize_as_f64(u) == Fin(FALSE, u \div B16, u % B16, FALSE)

\* the decimal digits of hi * 2^16 + lo, most significant first; none for 0
RECURSIVE DecDigits(_, _)
DecDigits(hi, lo) ==
    IF hi = 0 /\ lo = 0
    THEN <<>>
    ELSE LET t == (hi % 10) * B16 + lo
         IN  Append(DecDigits(hi \div 10, t \div 10), DigitChar(t % 10))

\* format!("{}", n) for a finite, non-zero n
format_f64(n) ==
    (IF n.neg THEN <<"-">> ELSE <<>>)
    \o (IF n.hi = 0 /\ n.lo = 0 THEN <<"0">> ELSE DecDigits(n.hi, n.lo))
    \o (IF n.half THEN <<".", "5">> ELSE <<>>)

\* the limbs of (hi * 2^16 + lo) * 10 + d
MulAdd10(m, d) ==
    LET t == m.lo * 10 + d
    IN  [hi |-> m.hi * 10 + t \div B16, lo |-> t % B16]

RECURSIVE ParseDigits(_, _)
ParseDigits(s, m) ==
    IF s = <<>> THEN m ELSE ParseDigits(Tail(s), MulAdd10(m, DigitVal(Head(s))))

AllDigits(s) == \A i \in 1..Len(s) : IsDigit(s[i])

AllZeros(s) == \A i \in 1..Len(s) : s[i] = "0"

\* the position of the first "." of s, or Len(s) + 1
DotPos(s) ==
    IF \E i \in 1..Len(s) : s[i] = "."
    THEN CHOOSE i \in 1..Len(s) : s[i] = "." /\ \A j \in 1..(i - 1) : s[j] # "."
    ELSE Len(s) + 1

\* <str as FromStr<f64>>::from_str on an unsigned body: "inf", "NaN", or
\* digits with an optional point; a fraction is ".0*" or ".50*" in this
\* model (other fractions and exponents are outside the string domain)
parse_unsigned(s, neg) ==
    LET p    == DotPos(s)
        ip   == SubSeq(s, 1, p - 1)
        fp   == SubSeq(s, p + 1, Len(s))
        m    == ParseDigits(ip, [hi |-> 0, lo |-> 0])
    IN  IF s = <<"i", "n", "f">> THEN Inf(neg)
        ELSE IF s = <<"N", "a", "N">> THEN NaN
        ELSE IF ~AllDigits(ip) \/ ~AllDigits(fp) \/ Len(ip) + Len(fp) = 0 THEN NaN
        ELSE IF AllZeros(fp) THEN Fin(neg, m.hi, m.lo, FALSE)
        ELSE IF Head(fp) = "5" /\ AllZeros(Tail(fp)) THEN Fin(neg, m.hi, m.lo, TRUE)
        ELSE NaN

\* s.parse::<f64>(), Err mapped to NaN as str_to_num does
parse_f64(s) ==
    IF s = <<>> THEN NaN
    ELSE IF Head(s) = "-" THEN (IF Len(s) = 1 THEN NaN ELSE parse_unsigned(Tail(s), TRUE))
    ELSE IF Head(s) = "+" THEN (IF Len(s) = 1 THEN NaN ELSE parse_unsigned(Tail(s), FALSE))
    ELSE parse_unsigned(s, FALSE)

str_to_num(s) ==
    IF \A i \in 1..Len(s) : is_whitespace(s[i]) THEN F(0) ELSE parse_f64(s)

(***************************************************************************)
(* The older value model: enum Value and struct Property (vm/value.rs).    *)
(* A PropMap or an array is a GcType pointer: a handle into the heaps      *)
(* `maps` and `arrays`.  ByteCode and the builtin's native pointer take no *)
(* part in any operation modelled here and are left out of the records.    *)
(***************************************************************************)
Value_Empty == [t |-> "Empty"]

Value_Null == [t |-> "Null"]

Value_Undefined == [t |-> "Undefined"]

Value_Bool(b) == [t |-> "Bool", b |-> b]

Value_Number(n) == [t |-> "Number", n |-> n]

Value_String(s) == [t |-> "String", s |-> s]

Value_Function(id, map, this) == [t |-> "Function", id |-> id, map |-> map, this |-> this]

Value_BuiltinFunction(info, map, this) ==
    [t |-> "BuiltinFunction", info |-> info, map |-> map, this |-> this]

Value_Object(map) == [t |-> "Object", map |-> map]

Value_Array(ptr) == [t |-> "Array", ptr |-> ptr]

Value_Date(time, map) == [t |-> "Date", time |-> time, map |-> map]

Value_Arguments == [t |-> "Arguments"]

\* Property::new
Property_new(val) ==
    [val |-> val, writable |-> TRUE, enumerable |-> TRUE, configurable |-> TRUE]

to_property(v) == Property_new(v)

\* str::trim_right_matches(",")
RECURSIVE trim_right_commas(_)
trim_right_commas(s) ==
    IF s # <<>> /\ s[Len(s)] = ","
    THEN trim_right_commas(SubSeq(s, 1, Len(s) - 1))
    ELSE s

RECURSIVE Value_to_string(_, _)
RECURSIVE ArrayValue_fold(_, _, _)

\* the fold of ArrayValue::to_string over a slice of elems
ArrayValue_fold(A, ps, acc) ==
    IF ps = <<>>
    THEN acc
    ELSE ArrayValue_fold(A, Tail(ps), acc \o Value_to_string(A, Head(ps).val) \o <<",">>)

\* ArrayValue::to_string; elems[0..length] is taken as the code takes it
ArrayValue_to_string(A, ary) ==
    trim_right_commas(ArrayValue_fold(A, SubSeq(ary.elems, 1, ary.length), <<>>))

Value_to_string(A, v) ==
    CASE v.t = "Undefined" -> <<"u", "n", "d", "e", "f", "i", "n", "e", "d">>
      [] v.t = "Bool" -> IF v.b THEN <<"t", "r", "u", "e">> ELSE <<"f", "a", "l", "s", "e">>
      [] v.t = "Number" ->
            IF is_nan(v.n) THEN <<"N", "a", "N">>
            ELSE IF IsZero(v.n) THEN <<"0">>
            ELSE IF is_infinite(v.n) THEN <<"I", "n", "f", "i", "n", "i", "t", "y">>
            ELSE format_f64(v.n)
      [] v.t = "String" -> v.s
      [] v.t = "Array" -> ArrayValue_to_string(A, A[v.ptr])
      [] v.t = "Object" ->
            <<"[", "o", "b", "j", "e", "c", "t", " ", "O", "b", "j", "e", "c", "t", "]">>
      [] v.t = "Date" -> v.time
      [] v.t = "Function" -> <<"[", "F", "u", "n", "c", "t", "i", "o", "n", "]">>
      [] v.t = "BuiltinFunction" ->
            <<"[", "B", "u", "i", "l", "t", "i", "n", "F", "u", "n", "c", "]">>
      [] v.t = "Null" -> <<"n", "u", "l", "l">>
      [] v.t = "Empty" -> <<"e", "m", "p", "t", "y">>
      [] OTHER -> <<"N", "O", "T", " ", "I", "M", "P", "L", "E", "M", "E", "N", "T", "E", "D">>

RECURSIVE Value_to_number(_, _)

\* ary_to_num without the arm for a boolean element
ary_to_num_nobool(A, ary) ==
    IF ary.length = 0 THEN F(0)
    ELSE IF ary.length = 1 THEN Value_to_number(A, ary.elems[1].val)
    ELSE NaN

ary_to_num(A, ary) ==
    IF ary.length = 0 THEN F(0)
    ELSE IF ary.length = 1
         THEN IF ary.elems[1].val.t = "Bool" THEN NaN
              ELSE Value_to_number(A, ary.elems[1].val)
    ELSE NaN

Value_to_number(A, v) ==
    CASE v.t = "Undefined" -> NaN
      [] v.t = "Bool" -> IF v.b THEN F(1) ELSE F(0)
      [] v.t = "Number" -> v.n
      [] v.t = "String" -> str_to_num(v.s)
      [] v.t = "Array" -> ary_to_num(A, A[v.ptr])
      [] OTHER -> NaN

\* the body of Value::to_uint32 on num = self.to_number(); the i64
\* remainder keeps the sign of the dividend.  cast is the outcome of
\* `as i64` on a magnitude of 2^63 or more: i64::MAX, whose remainder is
\* 2^32 - 1, or i64::MIN, whose remainder is 0
to_uint32_f64(num, cast) ==
    LET rhi == num.hi % B16
        rlo == num.lo
    IN  IF is_nan(num) \/ IsZero(num) \/ is_infinite(num) THEN F(0)
        ELSE IF num.k = "big"
             THEN IF ~num.neg /\ cast = "saturate"
                  THEN Fin(FALSE, B16 - 1, B16 - 1, FALSE)
                  ELSE F(0)
        ELSE IF num.neg /\ ~(rhi = 0 /\ rlo = 0)
             THEN IF rlo = 0
                  THEN Fin(FALSE, B16 - rhi, 0, FALSE)
                  ELSE Fin(FALSE, B16 - 1 - rhi, B16 - rlo, FALSE)
        ELSE Fin(FALSE, rhi, rlo, FALSE)

\* Value::to_uint32; the numbers of the property keys are below 2^63,
\* where the cast is exact
Value_to_uint32(A, v) == to_uint32_f64(Value_to_number(A, v), "saturate")

\* is_integer (vm/value.rs)
is_integer(f) == f.k = "fin" /\ ~f.half

\* to_boolean taking every Number for true
Value_to_boolean_anynum(v) ==
    CASE v.t = "Undefined" -> FALSE
      [] v.t = "Bool" -> v.b
      [] v.t \in {"Number", "Array", "Object"} -> TRUE
      [] v.t = "String" -> Len(v.s) # 0
      [] OTHER -> FALSE

\* Value::to_boolean
Value_to_boolean(v) ==
    CASE v.t = "Undefined" -> FALSE
      [] v.t = "Bool" -> v.b
      [] v.t = "Number" -> ~(IsZero(v.n) \/ is_nan(v.n))
      [] v.t = "String" -> Len(v.s) # 0
      [] v.t = "Array" -> TRUE
      [] v.t = "Object" -> TRUE
      [] OTHER -> FALSE

(***************************************************************************)
(* Equality of the older model.  A Result<bool, RuntimeError> is           *)
(* Ok(b), Err(Unimplemented), or the panic of unreachable!().              *)
(***************************************************************************)
Ok(b) == [kind |-> "Ok", val |-> b]

ErrUnimplemented == [kind |-> "Err", val |-> FALSE]

Panic == [kind |-> "Panic", val |-> FALSE]

type_equal(l, r) ==
    \/ l.t = "Empty" /\ r.t = "Empty"
    \/ l.t = "Null" /\ r.t = "Null"
    \/ l.t = "Undefined" /\ r.t = "Undefined"
    \/ l.t = "Bool" /\ r.t = "Bool"
    \/ l.t = "Number" /\ r.t = "Number"
    \/ l.t = "String" /\ r.t = "String"
    \/ l.t = "Object" /\ r.t = "Object"
    \/ l.t = "Function" /\ r.t = "Function"
    \/ l.t = "BuiltinFunction" /\ r.t = "BuiltinFunction"
    \/ l.t = "Array" /\ r.t = "Array"
    \/ l.t = "Arguments" /\ r.t = "Arguments"

strict_equal(l, r) ==
    CASE l.t = "Empty" /\ r.t = "Empty" -> Panic
      [] l.t = "Null" /\ r.t = "Null" -> Ok(TRUE)
      [] l.t = "Undefined" /\ r.t = "Undefined" -> Ok(TRUE)
      [] l.t = "Bool" /\ r.t = "Bool" -> Ok(l.b = r.b)
      [] l.t = "Number" /\ r.t = "Number" ->
            IF is_nan(l.n) \/ is_nan(r.n) THEN Ok(FALSE) ELSE Ok(f64_eq(l.n, r.n))
      [] l.t = "String" /\ r.t = "String" -> Ok(l.s = r.s)
      [] l.t = "Object" /\ r.t = "Object" -> Ok(l.map = r.map)
      [] l.t = "Function" /\ r.t = "Function" -> Ok(l.id = r.id /\ l.map = r.map)
      [] l.t = "BuiltinFunction" /\ r.t = "BuiltinFunction" ->
            Ok(l.info = r.info /\ l.map = r.map)
      [] l.t = "Array" /\ r.t = "Array" -> Ok(l.ptr = r.ptr)
      [] l.t = "Arguments" /\ r.t = "Arguments" -> ErrUnimplemented
      [] OTHER -> Ok(FALSE)

\* abstract_equal with the number of boolean-to-number recursions it made
RECURSIVE abstract_equal_rec(_, _, _)

\* abstract_equal without the (String, Number) arm
abstract_equal_rec_nostrnum(A, l, r) ==
    IF type_equal(l, r) THEN [res |-> strict_equal(l, r), depth |-> 0]
    ELSE IF l.t = "Number" /\ r.t = "String"
         THEN [res |-> Ok(f64_eq(l.n, Value_to_number(A, r))), depth |-> 0]
    ELSE IF l.t = "Bool"
         THEN LET sub == abstract_equal_rec(A, Value_Number(Value_to_number(A, l)), r)
              IN  [res |-> sub.res, depth |-> sub.depth + 1]
    ELSE IF r.t = "Bool"
         THEN LET sub == abstract_equal_rec(A, Value_Number(Value_to_number(A, r)), l)
              IN  [res |-> sub.res, depth |-> sub.depth + 1]
    ELSE [res |-> Ok(FALSE), depth |-> 0]

abstract_equal_rec(A, l, r) ==
    IF type_equal(l, r) THEN [res |-> strict_equal(l, r), depth |-> 0]
    ELSE IF l.t = "Number" /\ r.t = "String"
         THEN [res |-> Ok(f64_eq(l.n, Value_to_number(A, r))), depth |-> 0]
    ELSE IF l.t = "String" /\ r.t = "Number"
         THEN [res |-> Ok(f64_eq(Value_to_number(A, l), r.n)), depth |-> 0]
    ELSE IF l.t = "Bool"
         THEN LET sub == abstract_equal_rec(A, Value_Number(Value_to_number(A, l)), r)
              IN  [res |-> sub.res, depth |-> sub.depth + 1]
    ELSE IF r.t = "Bool"
         THEN LET sub == abstract_equal_rec(A, Value_Number(Value_to_number(A, r)), l)
              IN  [res |-> sub.res, depth |-> sub.depth + 1]
    ELSE [res |-> Ok(FALSE), depth |-> 0]

abstract_equal(A, l, r) == abstract_equal_rec(A, l, r).res

(***************************************************************************)
(* Property access of the older model.  M is the heap of property maps     *)
(* (handle -> map from name to Property), A the heap of ArrayValues        *)
(* (handle -> [elems, length, obj]).  The prototype singletons of the      *)
(* builtins (thread-local values outside vm/value.rs) are the objects      *)
(* whose maps live at the handles of their names.  An operation that       *)
(* panics yields PanicValue in place of a Value.                           *)
(***************************************************************************)
FUNCTION_PROTOTYPE == Value_Object("FUNCTION_PROTOTYPE")

OBJECT_PROTOTYPE == Value_Object("OBJECT_PROTOTYPE")

ARRAY_PROTOTYPE == Value_Object("ARRAY_PROTOTYPE")

NUMBER_PROTOTYPE == Value_Object("NUMBER_PROTOTYPE")

DATE_PROTOTYPE == Value_Object("DATE_PROTOTYPE")

PanicValue == [t |-> "PANIC"]

\* FxHashMap::insert / the entry(..).or_insert_with(..) followed by *refval = p
map_insert(map, key, p) ==
    [k \in (DOMAIN map) \cup {key} |-> IF k = key THEN p ELSE map[k]]

RECURSIVE obj_find_val(_, _, _, _)

\* obj_find_val that looks at the own properties only
obj_find_val_own(M, A, val, key) ==
    IF val.t \notin {"BuiltinFunction", "Function", "Date", "Object", "Array"}
    THEN Value_Undefined
    ELSE LET map == M[IF val.t = "Array" THEN A[val.ptr].obj ELSE val.map]
         IN  IF key \in DOMAIN map THEN map[key].val ELSE Value_Undefined

\* the handles of the maps obj_find_val asks for key, in the order of
\* its calls of (*map).get(key)
RECURSIVE obj_find_val_maps(_, _, _, _)
obj_find_val_maps(M, A, val, key) ==
    IF val.t \notin {"BuiltinFunction", "Function", "Date", "Object", "Array"}
    THEN <<>>
    ELSE LET h == IF val.t = "Array" THEN A[val.ptr].obj ELSE val.map
             map == M[h]
             is_builtin_func == val.t = "BuiltinFunction"
         IN  <<h>> \o
             (IF key \in DOMAIN map THEN <<>>
              ELSE IF is_builtin_func /\ key = STR_proto THEN <<>>
              ELSE IF STR_proto \in DOMAIN map
                   THEN obj_find_val_maps(M, A, map[STR_proto].val, key)
              ELSE IF is_builtin_func THEN obj_find_val_maps(M, A, FUNCTION_PROTOTYPE, key)
              ELSE <<>>)

obj_find_val(M, A, val, key) ==
    IF val.t \notin {"BuiltinFunction", "Function", "Date", "Object", "Array"}
    THEN Value_Undefined
    ELSE LET map == M[IF val.t = "Array" THEN A[val.ptr].obj ELSE val.map]
             is_builtin_func == val.t = "BuiltinFunction"
         IN  IF key \in DOMAIN map THEN map[key].val
             ELSE IF is_builtin_func /\ key = STR_proto THEN FUNCTION_PROTOTYPE
             ELSE IF STR_proto \in DOMAIN map
                  THEN obj_find_val(M, A, map[STR_proto].val, key)
             ELSE IF is_builtin_func THEN obj_find_val(M, A, FUNCTION_PROTOTYPE, key)
             ELSE Value_Undefined

set_this(val, this) ==
    IF val.t \in {"Function", "BuiltinFunction"}
    THEN [val EXCEPT !.this = this]
    ELSE val

\* get_by_idx bounded by the slot vector instead of the tracked length
get_by_idx_nobound(A, obj, n) ==
    LET arrval == A[obj.ptr]
    IN  IF n >= Len(arrval.elems) THEN Value_Undefined
        ELSE IF arrval.elems[n + 1].val.t = "Empty" THEN Value_Undefined
        ELSE arrval.elems[n + 1].val

\* get_by_idx handing out the stored value as it is
get_by_idx_raw(A, obj, n) ==
    LET arrval == A[obj.ptr]
    IN  IF n >= arrval.length THEN Value_Undefined
        ELSE IF n >= Len(arrval.elems) THEN PanicValue
        ELSE arrval.elems[n + 1].val

\* the closure get_by_idx of get_property; n counts from 0
get_by_idx(A, obj, n) ==
    LET arrval == A[obj.ptr]
    IN  IF n >= arrval.length THEN Value_Undefined
        ELSE IF n >= Len(arrval.elems) THEN PanicValue
        ELSE IF arrval.elems[n + 1].val.t = "Empty" THEN Value_Undefined
        ELSE arrval.elems[n + 1].val

\* property_of_array taking every string with a ToUint32 value as an index
property_of_array_noroundtrip(M, A, self, property) ==
    IF property.t = "Number" /\ is_integer(property.n) /\ f64_ge0(property.n)
    THEN get_by_idx(A, self, as_usize(property.n))
    ELSE IF property.t = "String" /\ property.s = STR_length
         THEN Value_Number(usize_as_f64(A[self.ptr].length))
    ELSE IF property.t = "String"
         THEN LET num == Value_to_uint32(A, property)
              IN  IF ~is_nan(Value_to_number(A, property))
                  THEN get_by_idx(A, self, as_usize(num))
                  ELSE set_this(obj_find_val(M, A, self, Value_to_string(A, property)), self)
    ELSE obj_find_val(M, A, self, Value_to_string(A, property))

property_of_array(M, A, self, property) ==
    IF property.t = "Number" /\ is_integer(property.n) /\ f64_ge0(property.n)
    THEN get_by_idx(A, self, as_usize(property.n))
    ELSE IF property.t = "String" /\ property.s = STR_length
         THEN Value_Number(usize_as_f64(A[self.ptr].length))
    ELSE IF property.t = "String"
         THEN LET num == Value_to_uint32(A, property)
              IN  IF Value_to_string(A, Value_Number(num)) = property.s
                  THEN get_by_idx(A, self, as_usize(num))
                  ELSE set_this(obj_find_val(M, A, self, Value_to_string(A, property)), self)
    ELSE obj_find_val(M, A, self, Value_to_string(A, property))

\* the string's length in UTF-16 code units; the alphabet is in the BMP
utf16_len(s) == Len(s)

\* property_of_string, for a key that is not a negative number (the cast
\* `n as usize` of a negative float is left to the operations that need it)
property_of_string(s, property) ==
    IF property.t = "Number" /\ is_integer(property.n)
    THEN IF as_usize(property.n) < Len(s)
         THEN Value_String(<<s[as_usize(property.n) + 1]>>)
         ELSE PanicValue
    ELSE IF property.t = "String" /\ property.s = STR_length
         THEN Value_Number(usize_as_f64(utf16_len(s)))
    ELSE Value_Undefined

\* property_of_arguments with callobjref = None
property_of_arguments(property) ==
    IF property.t = "Number" /\ is_integer(property.n) /\ f64_ge0(property.n)
    THEN Value_Undefined
    ELSE IF property.t = "String" /\ property.s = STR_length
         THEN Value_Number(F(0))
    ELSE Value_Undefined

get_property(M, A, self, property) ==
    CASE self.t = "Number" ->
            set_this(obj_find_val(M, A, NUMBER_PROTOTYPE, Value_to_string(A, property)), self)
      [] self.t = "String" -> property_of_string(self.s, property)
      [] self.t \in {"BuiltinFunction", "Function", "Date", "Object"} ->
            set_this(obj_find_val(M, A, self, Value_to_string(A, property)), self)
      [] self.t = "Array" -> property_of_array(M, A, self, property)
      [] self.t = "Arguments" -> property_of_arguments(property)
      [] OTHER -> Value_Undefined

\* the while loop that pushes Value::empty().to_property() up to k slots
pad_empty(elems, k) ==
    IF Len(elems) < k
    THEN elems \o [i \in 1..(k - Len(elems)) |-> to_property(Value_Empty)]
    ELSE elems

\* fn set_by_idx of set_property; n counts from 0
set_by_idx(ary, n, val) ==
    LET grown == IF n >= ary.length
                 THEN [ary EXCEPT !.length = n + 1, !.elems = pad_empty(ary.elems, n + 1)]
                 ELSE ary
    IN  [grown EXCEPT !.elems[n + 1] = to_property(val)]

\* the "length" branch that sets length and pushes no slot
set_array_length_nopad(ary, value) ==
    IF value.t = "Number" /\ is_integer(value.n) /\ f64_ge0(value.n)
    THEN [ary EXCEPT !.length = as_usize(value.n)]
    ELSE ary

\* the "length" branch of set_property on an array
set_array_length(ary, value) ==
    IF value.t = "Number" /\ is_integer(value.n) /\ f64_ge0(value.n)
    THEN [ary EXCEPT !.length = as_usize(value.n),
                     !.elems = pad_empty(ary.elems, as_usize(value.n) + 1)]
    ELSE ary

\* set_property on an array: the new ArrayValue and the new map at ary.obj
set_property_array(M, A, ary, property, value) ==
    IF property.t = "Number" /\ is_integer(property.n) /\ f64_ge0(property.n)
    THEN [ary |-> set_by_idx(ary, as_usize(property.n), value), map |-> M[ary.obj]]
    ELSE IF property.t = "String" /\ property.s = STR_length
         THEN [ary |-> set_array_length(ary, value), map |-> M[ary.obj]]
    ELSE IF property.t = "String"
            /\ Value_to_string(A, Value_Number(Value_to_uint32(A, property))) = property.s
         THEN [ary |-> set_by_idx(ary, as_usize(Value_to_uint32(A, property)), value),
               map |-> M[ary.obj]]
    ELSE [ary |-> ary,
          map |-> map_insert(M[ary.obj], Value_to_string(A, property), to_property(value))]

\* set_property that writes a key its receiver lacks to the receiver's
\* prototype when the prototype has the key
set_property_inherit(M, A, self, property, value) ==
    CASE self.t \in {"Object", "Date", "Function", "BuiltinFunction"} ->
            LET key == Value_to_string(A, property)
                own == M[self.map]
                up  == IF key \notin DOMAIN own /\ STR_proto \in DOMAIN own
                          /\ own[STR_proto].val.t = "Object"
                          /\ key \in DOMAIN M[own[STR_proto].val.map]
                       THEN own[STR_proto].val.map
                       ELSE self.map
            IN  [maps |-> [M EXCEPT ![up] = map_insert(@, key, to_property(value))],
                 arrays |-> A]
      [] self.t = "Array" ->
            LET r == set_property_array(M, A, A[self.ptr], property, value)
            IN  [maps |-> [M EXCEPT ![A[self.ptr].obj] = r.map],
                 arrays |-> [A EXCEPT ![self.ptr] = r.ary]]
      [] OTHER -> [maps |-> M, arrays |-> A]

\* Value::set_property (callobjref = None): the heaps after the call
set_property(M, A, self, property, value) ==
    CASE self.t \in {"Object", "Date", "Function", "BuiltinFunction"} ->
            [maps |-> [M EXCEPT ![self.map] =
                          map_insert(@, Value_to_string(A, property), to_property(value))],
             arrays |-> A]
      [] self.t = "Array" ->
            LET r == set_property_array(M, A, A[self.ptr], property, value)
            IN  [maps |-> [M EXCEPT ![A[self.ptr].obj] = r.map],
                 arrays |-> [A EXCEPT ![self.ptr] = r.ary]]
      [] OTHER -> [maps |-> M, arrays |-> A]

\* Value::set_constructor: the maps after the call
Value_set_constructor(M, A, self, constructor) ==
    CASE self.t \in {"Function", "BuiltinFunction", "Date", "Object"} ->
            [M EXCEPT ![self.map] = map_insert(@, STR_constructor, to_property(constructor))]
      [] self.t = "Array" ->
            [M EXCEPT ![A[self.ptr].obj] =
                map_insert(@, STR_constructor, to_property(constructor))]
      [] OTHER -> M

\* ArrayValue::new; obj is the handle of the map propmap_from_nvp allocates
ArrayValue_new(arr, obj) ==
    [elems |-> [i \in 1..Len(arr) |-> to_property(arr[i])], length |-> Len(arr), obj |-> obj]

\* ArrayValue::push
ArrayValue_push(ary, val) ==
    [ary EXCEPT !.elems = Append(@, Property_new(val)), !.length = @ + 1]

(***************************************************************************)
(* The newer value model: Value2 (vm/jsvalue/value.rs) and the array       *)
(* record ArrayObjectInfo (vm/jsvalue/array.rs).  An object is a pointer   *)
(* to an ObjectInfo: a handle.                                             *)
(***************************************************************************)
UNINITIALIZED == 0

EMPTY == 1

NULL == 2

UNDEFINED == 3

Value2_Number(n) == [t |-> "Number", n |-> n]

Value2_Bool(b) == [t |-> "Bool", b |-> b]

Value2_String(s) == [t |-> "String", s |-> s]

Value2_Object(h) == [t |-> "Object", h |-> h]

Value2_Other(o) == [t |-> "Other", o |-> o]

Value2_null == Value2_Other(NULL)

Value2_undefined == Value2_Other(UNDEFINED)

Value2_uninitialized == Value2_Other(UNINITIALIZED)

Value2_bool(x) == Value2_Bool(IF x THEN 1 ELSE 0)

\* Value2::empty, Value2::is_undefined, Value2::to_undefined_if_empty and
\* Property2::new_data_simple are called by array.rs and defined outside
\* the sources at hand
Value2_empty == Value2_Other(EMPTY)

Value2_is_undefined(v) == v = Value2_undefined

to_undefined_if_empty(v) == IF v = Value2_empty THEN Value2_undefined ELSE v

Property2_Data(val, writable, enumerable, configurable) ==
    [kind |-> "Data", val |-> val, writable |-> writable,
     enumerable |-> enumerable, configurable |-> configurable]

new_data_simple(val) == Property2_Data(val, TRUE, TRUE, TRUE)

None == [some |-> FALSE]

Some(v) == [some |-> TRUE, v |-> v]

\* ArrayObjectInfo::get_element; idx counts from 0
get_element(self, idx) ==
    IF idx >= Len(self.elems) THEN new_data_simple(Value2_undefined)
    ELSE IF self.elems[idx + 1].kind = "Data"
         THEN [self.elems[idx + 1] EXCEPT !.val = to_undefined_if_empty(@)]
    ELSE self.elems[idx + 1]

\* set_length without the Shorten branch
set_length_noshrink(self, len) ==
    IF Len(self.elems) < len
    THEN [self EXCEPT !.elems =
             @ \o [i \in 1..(len - Len(@)) |-> new_data_simple(Value2_empty)]]
    ELSE self

\* ArrayObjectInfo::set_length
set_length(self, len) ==
    IF Len(self.elems) < len
    THEN [self EXCEPT !.elems =
             @ \o [i \in 1..(len - Len(@)) |-> new_data_simple(Value2_empty)]]
    ELSE IF Len(self.elems) > len
         THEN [self EXCEPT !.elems = SubSeq(@, 1, len)]
    ELSE self

\* ArrayObjectInfo::set_element: the array after the call and the Option
\* it returns
set_element(self, idx, val_) ==
    LET ext == IF idx >= Len(self.elems) THEN set_length(self, idx + 1) ELSE self
    IN  IF ext.elems[idx + 1].kind = "Data"
        THEN [self |-> [ext EXCEPT !.elems[idx + 1].val = val_], ret |-> None]
        ELSE [self |-> ext,
              ret |-> IF Value2_is_undefined(ext.elems[idx + 1].set)
                      THEN None
                      ELSE Some(ext.elems[idx + 1].set)]

\* Value2::is_same_type_as
is_same_type_as(l, r) ==
    \/ l = Value2_Other(UNINITIALIZED) /\ r = Value2_Other(UNINITIALIZED)
    \/ l = Value2_Other(EMPTY) /\ r = Value2_Other(EMPTY)
    \/ l = Value2_Other(NULL) /\ r = Value2_Other(NULL)
    \/ l = Value2_Other(UNDEFINED) /\ r = Value2_Other(UNDEFINED)
    \/ l.t = "Number" /\ r.t = "Number"
    \/ l.t = "String" /\ r.t = "String"
    \/ l.t = "Bool" /\ r.t = "Bool"
    \/ l.t = "Object" /\ r.t = "Object"

\* Value2::strict_eq; into_number, into_str and into_bool are applied to
\* operands of the matched variant only and cannot panic here
strict_eq(l, r) ==
    IF ~is_same_type_as(l, r) THEN Value2_bool(FALSE)
    ELSE IF l = Value2_undefined \/ l = Value2_null THEN Value2_bool(TRUE)
    ELSE CASE l.t = "Number" -> Value2_bool(f64_eq(l.n, r.n))
           [] l.t = "String" -> Value2_bool(l.s = r.s)
           [] l.t = "Bool" -> Value2_bool((l.b = 1) = (r.b = 1))
           [] OTHER -> Value2_bool(FALSE)

(***************************************************************************)
(* f64 arithmetic of the operators of Value2, on NaN, the infinities and   *)
(* the finite multiples of 1/2 below 2^29 whose result is one again.       *)
(***************************************************************************)
Abs(i) == IF i < 0 THEN -i ELSE i

\* twice the value of a finite f64, as an integer
Twice(x) ==
    (IF x.neg THEN -1 ELSE 1) * (2 * (x.hi * B16 + x.lo) + (IF x.half THEN 1 ELSE 0))

\* the finite f64 whose double is d; a zero result has the sign negz
FromTwice(d, negz) ==
    IF d = 0 THEN Fin(negz, 0, 0, FALSE)
    ELSE Fin(d < 0, (Abs(d) \div 2) \div B16, (Abs(d) \div 2) % B16, Abs(d) % 2 = 1)

\* -x
f64_neg(x) == IF is_nan(x) THEN NaN ELSE [x EXCEPT !.neg = ~@]

\* x + y
f64_add(x, y) ==
    IF is_nan(x) \/ is_nan(y) THEN NaN
    ELSE IF is_infinite(x) THEN (IF is_infinite(y) /\ x.neg # y.neg THEN NaN ELSE x)
    ELSE IF is_infinite(y) THEN y
    ELSE FromTwice(Twice(x) + Twice(y), x.neg /\ y.neg)

\* x - y
f64_sub(x, y) == f64_add(x, f64_neg(y))

\* x * y; one factor at least is an integer
f64_mul(x, y) ==
    IF is_nan(x) \/ is_nan(y) THEN NaN
    ELSE IF (is_infinite(x) /\ IsZero(y)) \/ (IsZero(x) /\ is_infinite(y)) THEN NaN
    ELSE IF is_infinite(x) \/ is_infinite(y) THEN Inf(x.neg # y.neg)
    ELSE LET p == Abs(Twice(x)) * Abs(Twice(y))
         IN  FromTwice((IF x.neg # y.neg THEN -1 ELSE 1) * (p \div 2), x.neg # y.neg)

\* x / y; the quotient is a multiple of 1/2
f64_div(x, y) ==
    IF is_nan(x) \/ is_nan(y) THEN NaN
    ELSE IF is_infinite(x) THEN (IF is_infinite(y) THEN NaN ELSE Inf(x.neg # y.neg))
    ELSE IF is_infinite(y) THEN Fin(x.neg # y.neg, 0, 0, FALSE)
    ELSE IF IsZero(y) THEN (IF IsZero(x) THEN NaN ELSE Inf(x.neg # y.neg))
    ELSE LET h == (2 * Abs(Twice(x))) \div Abs(Twice(y))
         IN  FromTwice((IF x.neg # y.neg THEN -1 ELSE 1) * h, x.neg # y.neg)

\* x < y
f64_lt(x, y) ==
    IF is_nan(x) \/ is_nan(y) THEN FALSE
    ELSE IF x = y THEN FALSE
    ELSE IF is_infinite(x) THEN x.neg
    ELSE IF is_infinite(y) THEN ~y.neg
    ELSE Twice(x) < Twice(y)

\* x <= y
f64_le(x, y) == f64_lt(x, y) \/ f64_eq(x, y)

\* an i64: a small integer, i64::MAX or i64::MIN
I64(v) == [k |-> "int", v |-> v]

I64_MAX == [k |-> "max", v |-> 0]

I64_MIN == [k |-> "min", v |-> 0]

\* x as i64: truncation for a finite x; cast is the outcome for NaN and
\* the infinities
as_i64(x, cast) ==
    IF x.k = "fin" THEN I64((IF x.neg THEN -1 ELSE 1) * (x.hi * B16 + x.lo))
    ELSE IF cast = "indefinite" THEN I64_MIN
    ELSE IF is_nan(x) THEN I64(0)
    ELSE IF x.neg THEN I64_MIN
    ELSE I64_MAX

\* 2^e modulo m
RECURSIVE Pow2Mod(_, _)
Pow2Mod(e, m) == IF e = 0 THEN 1 % m ELSE (2 * Pow2Mod(e - 1, m)) % m

\* a % b on i64: the remainder has the sign of a; a zero divisor and
\* i64::MIN % -1 panic
i64_rem(a, b) ==
    IF b = I64(0) \/ (a = I64_MIN /\ b = I64(-1)) THEN [k |-> "panic", v |-> 0]
    ELSE IF a.k = "int" /\ b.k = "int"
         THEN I64((IF a.v < 0 THEN -1 ELSE 1) * (Abs(a.v) % Abs(b.v)))
    ELSE IF a.k = "int" THEN a
    ELSE IF a = b THEN I64(0)
    ELSE IF a = I64_MAX /\ b = I64_MIN THEN I64_MAX
    ELSE IF a = I64_MIN /\ b = I64_MAX THEN I64(-1)
    ELSE IF a = I64_MAX THEN I64((Pow2Mod(63, Abs(b.v)) + Abs(b.v) - 1) % Abs(b.v))
    ELSE I64(-Pow2Mod(63, Abs(b.v)))

\* i as f64; i64::MAX rounds to 2^63
i64_as_f64(i) ==
    IF i.k = "int" THEN FromTwice(2 * i.v, FALSE) ELSE Big(i.k = "min", 0, 0)

\* Value2::add
Value2_add(l, r) ==
    IF l.t = "Number" /\ r.t = "Number" THEN Value2_Number(f64_add(l.n, r.n))
    ELSE IF l.t = "String" /\ r.t = "String" THEN Value2_String(l.s \o r.s)
    ELSE Value2_undefined

\* Value2::sub
Value2_sub(l, r) ==
    IF l.t = "Number" /\ r.t = "Number" THEN Value2_Number(f64_sub(l.n, r.n))
    ELSE Value2_undefined

\* Value2::mul
Value2_mul(l, r) ==
    IF l.t = "Number" /\ r.t = "Number" THEN Value2_Number(f64_mul(l.n, r.n))
    ELSE Value2_undefined

\* Value2::div
Value2_div(l, r) ==
    IF l.t = "Number" /\ r.t = "Number" THEN Value2_Number(f64_div(l.n, r.n))
    ELSE Value2_undefined

\* Value2::rem: (x as i64 % y as i64) as f64, or the panic of the
\* remainder
Value2_rem(l, r, cast) ==
    IF l.t = "Number" /\ r.t = "Number"
    THEN LET q == i64_rem(as_i64(l.n, cast), as_i64(r.n, cast))
         IN  IF q.k = "panic" THEN PanicValue ELSE Value2_Number(i64_as_f64(q))
    ELSE Value2_undefined

\* Value2::lt
Value2_lt(l, r) ==
    IF l.t = "Number" /\ r.t = "Number"
    THEN Value2_Bool(IF f64_lt(l.n, r.n) THEN 1 ELSE 0)
    ELSE Value2_undefined

\* Value2::le
Value2_le(l, r) ==
    IF l.t = "Number" /\ r.t = "Number"
    THEN Value2_Bool(IF f64_le(l.n, r.n) THEN 1 ELSE 0)
    ELSE Value2_undefined

\* Value2::minus
Value2_minus(v) ==
    IF v.t = "Number" THEN Value2_Number(f64_neg(v.n)) ELSE Value2_undefined

\* Value2::to_boolean
Value2_to_boolean(v) ==
    CASE v = Value2_Bool(0) -> FALSE
      [] v = Value2_Bool(1) -> TRUE
      [] OTHER -> FALSE

(***************************************************************************)
(* The objects of the newer value model: a heap O of ObjectInfo records,   *)
(* each a kind and a property map, addressed by handle.                    *)
(***************************************************************************)
\* the handles the allocator has to give
AllocPool == {"c1"}

\* gc::MemoryAllocator::alloc: the handle of a new cell of the heap
alloc(O) == CHOOSE h \in AllocPool : h \notin DOMAIN O

\* copy_object that hands back the handle it was given
copy_object_alias(O, self) == [objs |-> O, ret |-> self]

\* Value2::copy_object: the heap after the call and the value returned
copy_object(O, self) ==
    IF self.t = "Object"
    THEN LET h == alloc(O)
         IN  [objs |-> O @@ (h :> O[self.h]), ret |-> Value2_Object(h)]
    ELSE [objs |-> O, ret |-> self]

\* Property2 { val, writable, enumerable, configurable }
Property2(val, writable, enumerable, configurable) ==
    [val |-> val, writable |-> writable, enumerable |-> enumerable,
     configurable |-> configurable]

\* ObjectInfo::set_property_by_string_key: the value of a writable data
\* property is overwritten in place, a key the object lacks becomes a new
\* own data property
ObjectInfo_set_property_by_string_key(obj_info, key, val) ==
    IF key \in DOMAIN obj_info.property
    THEN IF obj_info.property[key].writable
         THEN [obj_info EXCEPT !.property[key].val = val]
         ELSE obj_info
    ELSE [obj_info EXCEPT !.property = map_insert(@, key, Property2(val, TRUE, TRUE, TRUE))]

\* Value2::set_property_by_string_key: the heap after the call
set_property_by_string_key(O, self, key, val) ==
    IF self.t = "Object"
    THEN [O EXCEPT ![self.h] = ObjectInfo_set_property_by_string_key(@, key, val)]
    ELSE O

\* Value2::get_object_info: the handle of the ObjectInfo, or the panic
get_object_info(self) ==
    IF self.t = "Object" THEN [t |-> "Ok", h |-> self.h] ELSE PanicValue

\* Value2::set_constructor: the heap after the call, and whether the call
\* returned or panicked in get_object_info
Value2_set_constructor(O, self, val) ==
    IF get_object_info(self) = PanicValue
    THEN [objs |-> O, ret |-> PanicValue]
    ELSE [objs |-> [O EXCEPT ![get_object_info(self).h].property =
                       map_insert(@, STR_constructor, Property2(val, TRUE, FALSE, TRUE))],
          ret |-> Value2_undefined]

\* the result of a call that returned v
Returned(v) == [t |-> "Ok", v |-> v]

\* as_function that takes every object for a function
as_function_anyobj(O, self) ==
    IF self.t = "Object" THEN Returned(self.h) ELSE PanicValue

\* Value2::as_function: the handle of the object whose FunctionObjectInfo
\* is returned, or the panic
as_function(O, self) ==
    IF self.t = "Object"
    THEN IF O[self.h].kind = "Function" THEN Returned(self.h) ELSE PanicValue
    ELSE PanicValue

\* Value2::into_number
into_number(self) == IF self.t = "Number" THEN Returned(self.n) ELSE PanicValue

\* Value2::into_str
into_str(self) == IF self.t = "String" THEN Returned(self.s) ELSE PanicValue

\* Value2::into_bool
into_bool(self) == IF self.t = "Bool" THEN Returned(self.b = 1) ELSE PanicValue

\* FunctionObjectInfo::set_outer_environment: the environment becomes
\* the function's outer one
set_outer_environment(obj, env) == [obj EXCEPT !.outer = Some(env)]

\* Value2::set_function_outer_environment: the heap after the call, and
\* whether the call returned or panicked
set_function_outer_environment(O, self, env) ==
    IF self.t = "Object"
    THEN IF O[self.h].kind = "Function"
         THEN [objs |-> [O EXCEPT ![self.h] = set_outer_environment(@, env)],
               ret |-> Returned(Value2_undefined)]
         ELSE [objs |-> O, ret |-> PanicValue]
    ELSE [objs |-> O, ret |-> PanicValue]

\* Value2::eq
Value2_eq(l, r) ==
    IF is_same_type_as(l, r) THEN strict_eq(l, r)
    ELSE IF (l = Value2_null /\ r = Value2_undefined) \/ (l = Value2_undefined /\ r = Value2_null)
         THEN Value2_bool(TRUE)
    ELSE IF l.t = "Number" /\ r.t = "Number"
         THEN Value2_Bool(IF f64_eq(l.n, r.n) THEN 1 ELSE 0)
    ELSE Value2_undefined

\* Value2::ne: Value2::bool(!self.eq(val).into_bool()), or the panic of
\* into_bool
Value2_ne(l, r) ==
    LET b == into_bool(Value2_eq(l, r))
    IN  IF b = PanicValue THEN PanicValue ELSE Value2_bool(~b.v)

(***************************************************************************)
(* The state.  A virtual machine is built on one of the two value models   *)
(* (vm).  maps and arrays are the heaps of the older model, objs is the    *)
(* heap of ObjectInfo records and info an ArrayObjectInfo of the newer     *)
(* one, last is the operation that ran last with its arguments and         *)
(* result.  lhs, rhs and ret are the operands and the result of the        *)
(* comparison operations.                                                  *)
(***************************************************************************)
VARIABLES vm, maps, arrays, objs, info, last, lhs, rhs, ret

vars == <<vm, maps, arrays, objs, info, last, lhs, rhs, ret>>

STR_x == <<"x">>

STR_push == <<"p", "u", "s", "h">>

STR_02 == <<"0", "2">>

STR_prototype == <<"p", "r", "o", "t", "o", "t", "y", "p", "e">>

\* the canonical decimal numeral of a natural number
RECURSIVE Decimal(_)
Decimal(i) ==
    IF i < 10 THEN <<DigitChar(i)>> ELSE Append(Decimal(i \div 10), DigitChar(i % 10))

\* the user function Value::function builds: id, property map handle
Fn(id, h) == Value_Function(id, h, Value_Undefined)

\* the builtin ARRAY_PROTOTYPE.push, as Value::builtin_function builds it
BuiltinPush == Value_BuiltinFunction("push", "push_map", Value_Undefined)

\* a Property a caller of propmap_from_nvp builds: a data property that is
\* not writable
ReadOnly(val) ==
    [val |-> val, writable |-> FALSE, enumerable |-> TRUE, configurable |-> TRUE]

\* the property maps every machine starts with: the prototype singletons,
\* the maps of two arrays, of two object literals {} and of two functions,
\* and the map of an object made from a pair ("x", non-writable property)
InitMaps ==
    LET proto(v) == (STR_proto :> to_property(v))
    IN  [h \in {"OBJECT_PROTOTYPE", "FUNCTION_PROTOTYPE", "ARRAY_PROTOTYPE",
                "NUMBER_PROTOTYPE", "DATE_PROTOTYPE", "push_map", "a1_obj", "a2_obj", "o1", "o2",
                "f1", "f2", "f1_prototype", "f2_prototype", "d1", "o3"} |->
           CASE h = "OBJECT_PROTOTYPE" -> proto(Value_Null)
             [] h = "FUNCTION_PROTOTYPE" -> proto(OBJECT_PROTOTYPE)
             [] h = "ARRAY_PROTOTYPE" ->
                   proto(OBJECT_PROTOTYPE) @@ (STR_push :> to_property(BuiltinPush))
             [] h = "NUMBER_PROTOTYPE" -> proto(OBJECT_PROTOTYPE)
             [] h = "DATE_PROTOTYPE" -> proto(OBJECT_PROTOTYPE)
             [] h = "push_map" -> <<>>
             [] h \in {"a1_obj", "a2_obj"} -> proto(ARRAY_PROTOTYPE)
             [] h \in {"o1", "o2"} -> proto(OBJECT_PROTOTYPE)
             [] h = "o3" -> proto(OBJECT_PROTOTYPE)
                            @@ (<<"x">> :> ReadOnly(Value_Number(F(1))))
             [] h = "d1" -> proto(DATE_PROTOTYPE)
             [] h = "f1" -> proto(FUNCTION_PROTOTYPE)
                            @@ (STR_prototype :> to_property(Value_Object("f1_prototype")))
             [] h = "f2" -> proto(FUNCTION_PROTOTYPE)
                            @@ (STR_prototype :> to_property(Value_Object("f2_prototype")))
             [] h = "f1_prototype" -> proto(OBJECT_PROTOTYPE)
                            @@ (STR_constructor :> to_property(Fn(1, "f1")))
             [] h = "f2_prototype" -> proto(OBJECT_PROTOTYPE)
                            @@ (STR_constructor :> to_property(Fn(2, "f2")))]

\* the element vectors ArrayValue::new is given
NewElems == UNION {[1..n -> {Value_Number(F(1))}] : n \in 0..MaxNew}

\* Value2::object: an Ordinary object whose __proto__ is the registry's
\* object prototype; h1 and h2 are two such objects, hf is a function
InitObjs ==
    LET proto(v) == (STR_proto :> [val |-> v, writable |-> FALSE,
                                   enumerable |-> FALSE, configurable |-> FALSE])
    IN  [h \in {"object_prototype", "function_prototype", "h1", "h2", "hf"} |->
           CASE h = "object_prototype" -> [kind |-> "Ordinary", property |-> <<>>]
             [] h = "function_prototype" ->
                   [kind |-> "Ordinary", property |-> proto(Value2_Object("object_prototype"))]
             [] h = "hf" ->
                   [kind |-> "Function", outer |-> None,
                    property |-> proto(Value2_Object("function_prototype"))]
             [] OTHER ->
                   [kind |-> "Ordinary", property |-> proto(Value2_Object("object_prototype"))]]

InitHeap(arr) ==
    /\ maps = InitMaps
    /\ objs = InitObjs
    /\ arrays = [h \in {"a1", "a2"} |->
                    ArrayValue_new(arr, IF h = "a1" THEN "a1_obj" ELSE "a2_obj")]
    /\ info = [elems |-> <<>>]
    /\ last = [op |-> "new"]

Init ==
    /\ vm \in {"value", "jsvalue"}
    /\ \E arr \in NewElems : (vm = "jsvalue" => arr = <<>>) /\ InitHeap(arr)
    /\ lhs = Value_Undefined
    /\ rhs = Value_Undefined
    /\ ret = [op |-> "none"]

(***************************************************************************)
(* The inputs the operations are given.                                    *)
(***************************************************************************)
TheArray == Value_Array("a1")

TheObject == Value_Object("o1")

\* values written to slots and properties
WVals == {Value_Number(F(7)), Value_Number(F(9))}

\* values written to "length"; Undefined is one of those the code ignores
LenVals ==
    {Value_Number(F(m)) : m \in 0..(MaxIdx + 1)} \cup {Value_Number(NegZero), Value_Undefined}

IdxNumKeys == {Value_Number(F(i)) : i \in 0..MaxIdx}

IdxStrKeys == {Value_String(Decimal(i)) : i \in 0..MaxIdx}

KEY_length == Value_String(STR_length)

\* the (key, value) pairs set_property is given on the array and the object
ArrayWrites ==
    ((IdxNumKeys \cup IdxStrKeys) \X WVals)
    \cup ({Value_String(STR_02)} \X {Value_Number(F(7))})
    \cup ({KEY_length} \X LenVals)

ObjectWrites == {Value_String(STR_x)} \X {Value_Number(F(7))}

\* the keys get_property is given
ReadKeys ==
    IdxNumKeys \cup IdxStrKeys
    \cup {Value_Number(F(MaxIdx + 1)), Value_String(Decimal(MaxIdx + 1)),
          KEY_length, Value_String(STR_02), Value_String(STR_x), Value_String(STR_push),
          Value_String(<<"-", "1">>), Value_String(<<"1", ".", "0">>),
          Value_String(<<"+", "1">>), Value_String(<<" ", "1">>), Value_String(<<>>),
          Value_Number(F(-1)), Value_Number(Half), Value_Number(NaN), Value_Undefined}

\* the receivers get_property is given
ReadRecvs ==
    {TheArray, TheObject, Value_Number(F(1)), Value_String(<<"a", "b">>), Value_Bool(TRUE),
     Value_Null, Value_Undefined, Value_Empty, Value_Arguments, Fn(1, "f1"),
     Value_Date(<<"t">>, "d1")}

\* the (receiver, key) pairs the get_property steps of a run read; the
\* properties of get_property range over all of ReadRecvs and ReadKeys
GetCalls ==
    ({TheArray} \X (IdxNumKeys \cup {KEY_length, Value_String(STR_02)}))
    \cup ({TheObject} \X {Value_String(STR_x)})

(***************************************************************************)
(* The operations of a machine of the older value model.                   *)
(***************************************************************************)
SetProperty(self, property, value) ==
    /\ vm = "value"
    /\ LET r == set_property(maps, arrays, self, property, value)
       IN  /\ maps' = r.maps
           /\ arrays' = r.arrays
    /\ last' = [op |-> "set_property", self |-> self, key |-> property, val |-> value,
                len0 |-> arrays["a1"].length]
    /\ UNCHANGED <<vm, objs, info, lhs, rhs, ret>>

\* push on the array; the guard caps the element vector, which a sequence
\* of "length" writes and pushes would grow without bound
Push(val) ==
    /\ vm = "value"
    /\ Len(arrays["a1"].elems) <= MaxIdx
    /\ arrays' = [arrays EXCEPT !["a1"] = ArrayValue_push(@, val)]
    /\ last' = [op |-> "push", val |-> val, len0 |-> arrays["a1"].length]
    /\ UNCHANGED <<vm, maps, objs, info, lhs, rhs, ret>>

GetProperty(self, property) ==
    /\ vm = "value"
    /\ ~(self.t = "String" /\ property.t = "Number" /\ f64_lt0(property.n))
    /\ last' = [op |-> "get_property", self |-> self, key |-> property,
                ret |-> get_property(maps, arrays, self, property)]
    /\ UNCHANGED <<vm, maps, arrays, objs, info, lhs, rhs, ret>>

(***************************************************************************)
(* The operations of a machine of the newer value model, on its array.     *)
(***************************************************************************)
WVals2 == {Value2_Number(F(7)), Value2_Number(F(9))}

SetElement(idx, val_) ==
    /\ vm = "jsvalue"
    /\ LET r == set_element(info, idx, val_)
       IN  /\ info' = r.self
           /\ last' = [op |-> "set_element", idx |-> idx, val |-> val_, ret |-> r.ret,
                       len0 |-> Len(info.elems)]
    /\ UNCHANGED <<vm, maps, arrays, objs, lhs, rhs, ret>>

SetLength(len) ==
    /\ vm = "jsvalue"
    /\ info' = set_length(info, len)
    /\ last' = [op |-> "set_length", len |-> len, len0 |-> Len(info.elems)]
    /\ UNCHANGED <<vm, maps, arrays, objs, lhs, rhs, ret>>

GetElement(idx) ==
    /\ vm = "jsvalue"
    /\ last' = [op |-> "get_element", idx |-> idx, ret |-> get_element(info, idx)]
    /\ UNCHANGED <<vm, maps, arrays, objs, info, lhs, rhs, ret>>

Next ==
    \/ \E w \in ArrayWrites : SetProperty(TheArray, w[1], w[2])
    \/ \E w \in ObjectWrites : SetProperty(TheObject, w[1], w[2])
    \/ \E v \in WVals : Push(v)
    \/ \E c \in GetCalls : GetProperty(c[1], c[2])
    \/ \E i \in 0..MaxIdx2, v \in WVals2 : SetElement(i, v)
    \/ \E n \in 0..(MaxIdx2 + 1) : SetLength(n)
    \/ \E i \in 0..(MaxIdx2 + 1) : GetElement(i)

Spec == Init /\ [][Next]_vars

(***************************************************************************)
(* The comparison operations, applied to operands drawn at the start.      *)
(***************************************************************************)
\* the operands of the older model's comparisons
ValueDomain ==
    {Value_Empty, Value_Null, Value_Undefined, Value_Bool(TRUE), Value_Bool(FALSE),
     Value_Number(F(0)), Value_Number(F(1)), Value_Number(NaN), Value_Number(NegZero),
     Value_String(<<"1">>), Value_String(<<>>), Value_String(<<"a">>),
     Value_Object("o1"), Value_Object("o2"), Value_Array("a1"), Value_Array("a2"),
     Fn(1, "f1"), Fn(2, "f2"), BuiltinPush, Value_Date(<<"t">>, "d1"), Value_Arguments}

\* the operands of the newer model's comparisons
Value2Domain ==
    {Value2_uninitialized, Value2_empty, Value2_null, Value2_undefined,
     Value2_Number(F(0)), Value2_Number(F(1)), Value2_Number(NaN),
     Value2_Bool(0), Value2_Bool(1), Value2_String(<<"1">>), Value2_String(<<"a">>),
     Value2_Object("h1"), Value2_Object("h2"), Value2_Object("hf")}

InitEq ==
    /\ vm \in {"value", "jsvalue"}
    /\ InitHeap(<<>>)
    /\ lhs \in (IF vm = "value" THEN ValueDomain ELSE Value2Domain)
    /\ rhs \in (IF vm = "value" THEN ValueDomain ELSE Value2Domain)
    /\ ret = [op |-> "none"]

TypeEqual ==
    /\ vm = "value"
    /\ ret' = [op |-> "type_equal", b |-> type_equal(lhs, rhs)]
    /\ UNCHANGED <<vm, maps, arrays, objs, info, last, lhs, rhs>>

StrictEqual ==
    /\ vm = "value"
    /\ ret' = [op |-> "strict_equal", res |-> strict_equal(lhs, rhs)]
    /\ UNCHANGED <<vm, maps, arrays, objs, info, last, lhs, rhs>>

AbstractEqual ==
    /\ vm = "value"
    /\ LET r == abstract_equal_rec(arrays, lhs, rhs)
       IN  ret' = [op |-> "abstract_equal", res |-> r.res, depth |-> r.depth]
    /\ UNCHANGED <<vm, maps, arrays, objs, info, last, lhs, rhs>>

IsSameTypeAs ==
    /\ vm = "jsvalue"
    /\ ret' = [op |-> "is_same_type_as", b |-> is_same_type_as(lhs, rhs)]
    /\ UNCHANGED <<vm, maps, arrays, objs, info, last, lhs, rhs>>

StrictEq ==
    /\ vm = "jsvalue"
    /\ ret' = [op |-> "strict_eq", v |-> strict_eq(lhs, rhs)]
    /\ UNCHANGED <<vm, maps, arrays, objs, info, last, lhs, rhs>>

Eq ==
    /\ vm = "jsvalue"
    /\ ret' = [op |-> "eq", v |-> Value2_eq(lhs, rhs)]
    /\ UNCHANGED <<vm, maps, arrays, objs, info, last, lhs, rhs>>

Ne ==
    /\ vm = "jsvalue"
    /\ ret' = [op |-> "ne", v |-> Value2_ne(lhs, rhs)]
    /\ UNCHANGED <<vm, maps, arrays, objs, info, last, lhs, rhs>>

NextEq ==
    \/ TypeEqual
    \/ StrictEqual
    \/ AbstractEqual
    \/ IsSameTypeAs
    \/ StrictEq
    \/ Eq
    \/ Ne

SpecEq == InitEq /\ [][NextEq]_vars

(***************************************************************************)
(* Properties of the arrays.                                               *)
(***************************************************************************)
\* C1: on an array of the older model the tracked length equals the number
\* of slots after every set_property and push
C1_LengthIsSlotCount ==
    vm = "value" => arrays["a1"].length = Len(arrays["a1"].elems)

\* the value get_element reads at idx
Read2(self, idx) == get_element(self, idx).val

\* C2: set_length(n) leaves exactly n slots; set_element(i, v) leaves
\* max(previous length, i + 1) slots, reads v back at i, reads Undefined
\* at every slot made by padding, and keeps the slots below the previous
\* length that it does not write
C2_SetLengthSetElement ==
    vm = "jsvalue" =>
      LET prev == Len(info.elems)
      IN  /\ \A n \in 0..(MaxIdx2 + 1) :
                LET a == set_length(info, n)
                IN  /\ Len(a.elems) = n
                    /\ \A j \in 0..(MaxIdx2 + 1) :
                          /\ j < n /\ j < prev => a.elems[j + 1] = info.elems[j + 1]
                          /\ j >= prev => Read2(a, j) = Value2_undefined
                          /\ j >= n => Read2(a, j) = Value2_undefined
          /\ \A i \in 0..(MaxIdx2 + 1), v \in WVals2 :
                LET a == set_element(info, i, v).self
                IN  /\ Len(a.elems) = (IF prev >= i + 1 THEN prev ELSE i + 1)
                    /\ Read2(a, i) = v
                    /\ \A j \in 0..(MaxIdx2 + 1) :
                          /\ j < prev /\ j # i => a.elems[j + 1] = info.elems[j + 1]
                          /\ j >= prev /\ j # i => Read2(a, j) = Value2_undefined

\* set_element(3, 9) on [] and then set_length(1): one slot is left, and
\* index 3 reads Undefined
C2_Witness ==
    /\ vm = "jsvalue"
    /\ last.op = "set_length" /\ last.len = 1 /\ last.len0 = 4
    /\ Len(info.elems) = 1
    /\ info.elems[1].val = Value2_empty
    /\ Read2(info, 0) = Value2_undefined
    /\ Read2(info, 3) = Value2_undefined

\* C3: writing "length" := m on an array whose length exceeds m makes
\* "length" read m and every index i >= m read Undefined
C3_ShrinkHidesSlots ==
    vm = "value" =>
      \A m \in 0..(MaxIdx + 1) :
         arrays["a1"].length > m =>
           LET r == set_property(maps, arrays, TheArray, KEY_length, Value_Number(F(m)))
           IN  /\ get_property(r.maps, r.arrays, TheArray, KEY_length) = Value_Number(F(m))
               /\ \A i \in m..(MaxIdx + 2) :
                     /\ get_property(r.maps, r.arrays, TheArray, Value_Number(F(i)))
                           = Value_Undefined
                     /\ get_property(r.maps, r.arrays, TheArray, Value_String(Decimal(i)))
                           = Value_Undefined

\* "length" := 1 was written on an array of length 2 whose slot 1 held a
\* number; the slot still holds it and reads Undefined
C3_Witness ==
    /\ vm = "value"
    /\ last.op = "set_property" /\ last.self = TheArray /\ last.key = KEY_length
    /\ last.val = Value_Number(F(1)) /\ last.len0 = 2
    /\ Len(arrays["a1"].elems) >= 2
    /\ arrays["a1"].elems[2].val.t = "Number"
    /\ get_property(maps, arrays, TheArray, KEY_length) = Value_Number(F(1))
    /\ get_property(maps, arrays, TheArray, Value_Number(F(1))) = Value_Undefined

\* C4: no read returns Empty: get_property of every receiver and key, and
\* get_element of every index, in every state the writes reach
C4_NoEmptyRead ==
    /\ vm = "value" =>
         \A self \in ReadRecvs, key \in ReadKeys :
            ~(self.t = "String" /\ key.t = "Number" /\ f64_lt0(key.n)) =>
               get_property(maps, arrays, self, key) # Value_Empty
    /\ vm = "jsvalue" =>
         \A i \in 0..(MaxIdx2 + 1) :
            LET p == get_element(info, i)
            IN  p.kind = "Data" => p.val # Value2_empty

\* a slot reserved by growth and never written was read as Undefined
C4_Witness ==
    /\ vm = "value"
    /\ last.op = "get_property" /\ last.self = TheArray /\ last.key = Value_Number(F(0))
    /\ arrays["a1"].length >= 2
    /\ arrays["a1"].elems[1].val = Value_Empty
    /\ last.ret = Value_Undefined

\* the string keys of ReadKeys that are not the canonical decimal of
\* their own ToUint32 value
NonIndexStrKeys ==
    {k \in ReadKeys :
        /\ k.t = "String"
        /\ Value_to_string(arrays, Value_Number(Value_to_uint32(arrays, k))) # k.s}

\* Number(i) and the canonical decimal string of i read the same value and
\* write the same slot with the same effect on the length
IndexKeysAgree ==
    \A i \in 0..(MaxIdx + 1) :
       LET n == Value_Number(F(i))
           d == Value_String(Decimal(i))
       IN  /\ get_property(maps, arrays, TheArray, n) = get_property(maps, arrays, TheArray, d)
           /\ \A v \in WVals :
                 LET r == set_property(maps, arrays, TheArray, n, v)
                 IN  /\ r = set_property(maps, arrays, TheArray, d, v)
                     /\ r.arrays["a1"].elems[i + 1].val = v
                     /\ r.arrays["a1"].length
                           = (IF arrays["a1"].length >= i + 1 THEN arrays["a1"].length ELSE i + 1)
                     /\ r.maps = maps

\* the key k is read from the ordinary property map with prototype
\* fallback, whatever the slots hold, and a write of it goes to that map
\* and leaves elems and length as they are
OrdinaryKey(k) ==
    /\ get_property(maps, arrays, TheArray, k)
          = (IF k.s \in DOMAIN maps["a1_obj"]
             THEN set_this(maps["a1_obj"][k.s].val, TheArray)
             ELSE set_this(obj_find_val(maps, arrays, ARRAY_PROTOTYPE, k.s), TheArray))
    /\ \A v \in WVals \cup LenVals :
          LET r == set_property(maps, arrays, TheArray, k, v)
          IN  /\ r.arrays = arrays
              /\ k.s \in DOMAIN r.maps["a1_obj"]
              /\ r.maps["a1_obj"][k.s].val = v
              /\ get_property(r.maps, r.arrays, TheArray, k) = set_this(v, TheArray)

\* C5 as stated: index keys agree, and every string key that is not the
\* canonical decimal of its ToUint32 value is an ordinary key
C5_AsStated ==
    vm = "value" => IndexKeysAgree /\ \A k \in NonIndexStrKeys : OrdinaryKey(k)

\* C5: index keys agree, and every string key other than "length" that is
\* not the canonical decimal of its ToUint32 value is an ordinary key
C5_IndexAndOrdinaryKeys ==
    vm = "value" =>
       IndexKeysAgree /\ \A k \in NonIndexStrKeys \ {KEY_length} : OrdinaryKey(k)

\* "02" is a property of the array's map, slot 1 was written through the
\* string key "1", and slot 1 holds a value that "1.0" must not read
C5_Witness ==
    /\ vm = "value"
    /\ STR_02 \in DOMAIN maps["a1_obj"]
    /\ last.op = "set_property" /\ last.self = TheArray
    /\ last.key = Value_String(Decimal(1))
    /\ arrays["a1"].length = 2
    /\ arrays["a1"].elems[2].val = last.val
    /\ get_property(maps, arrays, TheArray, Value_String(<<"1", ".", "0">>)) = Value_Undefined

(***************************************************************************)
(* Properties of the comparisons.                                          *)
(***************************************************************************)
\* the variants of Value that abstract equality may coerce: Bool, Number,
\* String and the object kinds
CoercedKinds == {"Bool", "Number", "String", "Object", "Array", "Function",
                 "BuiltinFunction", "Date"}

\* C6: abstract_equal of Null and Undefined is true in both orders, and
\* abstract_equal of Null or Undefined with a value of another type is
\* false
C6_NullUndefined ==
    (vm = "value" /\ ret.op = "abstract_equal") =>
       /\ (lhs.t = "Null" /\ rhs.t = "Undefined") => ret.res = Ok(TRUE)
       /\ (lhs.t = "Undefined" /\ rhs.t = "Null") => ret.res = Ok(TRUE)
       /\ (lhs.t \in {"Null", "Undefined"} /\ rhs.t \in CoercedKinds) => ret.res = Ok(FALSE)
       /\ (rhs.t \in {"Null", "Undefined"} /\ lhs.t \in CoercedKinds) => ret.res = Ok(FALSE)

\* n == s as f64 values, from the value of the string
NumEqStr(n, s) == Ok(f64_eq(n.n, Value_to_number(arrays, s)))

\* C7: abstract_equal of a Number and a String is n == to_number(s) in
\* both orders; with a Bool on one side and a non-Bool x on the other it
\* is abstract_equal(Number(to_number(b)), x); Number(1) and "1" are
\* equal; at most one boolean-to-number step is made
C7_MixedCoercion ==
    (vm = "value" /\ ret.op = "abstract_equal") =>
       /\ (lhs.t = "Number" /\ rhs.t = "String") => ret.res = NumEqStr(lhs, rhs)
       /\ (lhs.t = "String" /\ rhs.t = "Number") => ret.res = NumEqStr(rhs, lhs)
       /\ (lhs.t = "Bool" /\ rhs.t # "Bool") =>
             ret.res = abstract_equal(arrays, Value_Number(Value_to_number(arrays, lhs)), rhs)
       /\ (rhs.t = "Bool" /\ lhs.t # "Bool") =>
             ret.res = abstract_equal(arrays, Value_Number(Value_to_number(arrays, rhs)), lhs)
       /\ (lhs.t = "Bool" /\ rhs.t = "String") =>
             ret.res = NumEqStr(Value_Number(F(IF lhs.b THEN 1 ELSE 0)), rhs)
       /\ (lhs = Value_Number(F(1)) /\ rhs = Value_String(<<"1">>)) => ret.res = Ok(TRUE)
       /\ (rhs = Value_Number(F(1)) /\ lhs = Value_String(<<"1">>)) => ret.res = Ok(TRUE)
       /\ ret.depth <= 1

\* true was compared with "1": one boolean-to-number step, then 1 == 1
C7_Witness ==
    /\ vm = "value" /\ ret.op = "abstract_equal"
    /\ lhs = Value_Bool(TRUE) /\ rhs = Value_String(<<"1">>)
    /\ ret.res = Ok(TRUE) /\ ret.depth = 1

\* the variant of a Value2: its sentinel, or its tag
Variant2(v) == IF v.t = "Other" THEN <<"Other", v.o>> ELSE <<v.t>>

\* C8: strict equality is false for operands of different types, false for
\* NaN and NaN, and true for Null and Null, Undefined and Undefined, Empty
\* and Empty
C8_StrictEquality ==
    /\ (vm = "value" /\ ret.op = "strict_equal") =>
          /\ lhs.t # rhs.t => ret.res = Ok(FALSE)
          /\ (lhs = Value_Number(NaN) /\ rhs = Value_Number(NaN)) => ret.res = Ok(FALSE)
          /\ (lhs.t = rhs.t /\ lhs.t \in {"Null", "Undefined", "Empty"}) => ret.res = Ok(TRUE)
    /\ (vm = "jsvalue" /\ ret.op = "strict_eq") =>
          /\ Variant2(lhs) # Variant2(rhs) => ret.v = Value2_bool(FALSE)
          /\ (lhs = Value2_Number(NaN) /\ rhs = Value2_Number(NaN)) => ret.v = Value2_bool(FALSE)
          /\ (lhs = rhs /\ lhs \in {Value2_null, Value2_undefined, Value2_empty}) =>
                ret.v = Value2_bool(TRUE)

\* C9: strict equality of objects, arrays and functions is true for a
\* handle and itself and false for two distinct handles
C9_HandleIdentity ==
    /\ (vm = "value" /\ ret.op = "strict_equal"
          /\ lhs.t = rhs.t /\ lhs.t \in {"Object", "Array", "Function", "BuiltinFunction"}) =>
          ret.res = Ok(lhs = rhs)
    /\ (vm = "jsvalue" /\ ret.op = "strict_eq" /\ lhs.t = "Object" /\ rhs.t = "Object") =>
          ret.v = Value2_bool(lhs.h = rhs.h)

\* C10: the type-tag comparison is reflexive and symmetric, and holds
\* exactly for two values of the same variant
C10_TypeTag ==
    /\ (vm = "value" /\ ret.op = "type_equal") =>
          /\ ret.b = (lhs.t = rhs.t)
          /\ ret.b = type_equal(rhs, lhs)
          /\ type_equal(lhs, lhs) /\ type_equal(rhs, rhs)
    /\ (vm = "jsvalue" /\ ret.op = "is_same_type_as") =>
          /\ ret.b = (Variant2(lhs) = Variant2(rhs))
          /\ ret.b = is_same_type_as(rhs, lhs)
          /\ is_same_type_as(lhs, lhs) /\ is_same_type_as(rhs, rhs)

(***************************************************************************)
(* The property operations on objects: ordinary objects, a function and a  *)
(* date, with writes to the objects and to their prototypes.               *)
(***************************************************************************)
STR_y == <<"y">>

TheDate == Value_Date(<<"t">>, "d1")

\* the receivers of the writes
ObjRecvs == {TheObject, Value_Object("o2"), OBJECT_PROTOTYPE, Fn(1, "f1"), TheDate}

\* the (receiver, key) pairs the get_property steps read
ObjGetCalls ==
    (ObjRecvs \X {Value_String(STR_x)})
    \cup ({Value_String(<<"a", "b">>)} \X {Value_Number(F(0)), Value_Number(F(2)), KEY_length})
    \cup ({Value_Arguments} \X {Value_Number(F(0))})

InitObj ==
    /\ vm = "value"
    /\ InitHeap(<<>>)
    /\ lhs = Value_Undefined
    /\ rhs = Value_Undefined
    /\ ret = [op |-> "none"]

\* writes of "x" to the objects, the write o1.__proto__ = o2, and reads
NextObj ==
    \/ \E o \in ObjRecvs, v \in WVals : SetProperty(o, Value_String(STR_x), v)
    \/ SetProperty(TheObject, Value_String(STR_proto), Value_Object("o2"))
    \/ SetProperty(Value_Object("o3"), Value_String(STR_x), Value_Number(F(7)))
    \/ \E c \in ObjGetCalls : GetProperty(c[1], c[2])

SpecObj == InitObj /\ [][NextObj]_vars

\* the maps of the prototype chain of v, v's own first, following
\* __proto__ (a builtin function without one has FUNCTION_PROTOTYPE)
RECURSIVE ProtoChain(_, _)
ProtoChain(M, v) ==
    IF v.t \notin {"BuiltinFunction", "Function", "Date", "Object"}
    THEN <<>>
    ELSE <<v.map>> \o
         (IF STR_proto \in DOMAIN M[v.map] THEN ProtoChain(M, M[v.map][STR_proto].val)
          ELSE IF v.t = "BuiltinFunction" THEN ProtoChain(M, FUNCTION_PROTOTYPE)
          ELSE <<>>)

\* C11: the lookup of k from o asks a prefix of o's prototype chain for k,
\* all n + 1 maps when none has k; it returns the value of the first map
\* of the chain that has k, and Undefined when none has
C11_PrototypeLookup ==
    vm = "value" =>
      \A o \in ObjRecvs \cup {BuiltinPush}, k \in {STR_x, STR_y, STR_push} :
         LET chain  == ProtoChain(maps, o)
             asked  == obj_find_val_maps(maps, arrays, o, k)
             owners == {i \in 1..Len(chain) : k \in DOMAIN maps[chain[i]]}
             found  == obj_find_val(maps, arrays, o, k)
         IN  /\ Len(asked) <= Len(chain)
             /\ asked = SubSeq(chain, 1, Len(asked))
             /\ owners = {} =>
                   /\ Len(asked) = Len(chain)
                   /\ found = Value_Undefined
                   /\ get_property(maps, arrays, o, Value_String(k)) = Value_Undefined
             /\ owners # {} =>
                   LET first == CHOOSE i \in owners : \A j \in owners : i <= j
                   IN  /\ Len(asked) = first
                       /\ found = maps[chain[first]][k].val
                       /\ get_property(maps, arrays, o, Value_String(k)) = set_this(found, o)

\* x was read from o1, whose chain is o1, o2, OBJECT_PROTOTYPE; o1 has no
\* x, o2 holds 7 and OBJECT_PROTOTYPE holds 9: two maps asked, 7 returned
C11_Witness ==
    /\ vm = "value"
    /\ last.op = "get_property" /\ last.self = TheObject /\ last.key = Value_String(STR_x)
    /\ ProtoChain(maps, TheObject) = <<"o1", "o2", "OBJECT_PROTOTYPE">>
    /\ STR_x \notin DOMAIN maps["o1"]
    /\ STR_x \in DOMAIN maps["o2"] /\ maps["o2"][STR_x].val = Value_Number(F(7))
    /\ STR_x \in DOMAIN maps["OBJECT_PROTOTYPE"]
    /\ maps["OBJECT_PROTOTYPE"][STR_x].val = Value_Number(F(9))
    /\ obj_find_val_maps(maps, arrays, TheObject, STR_x) = <<"o1", "o2">>
    /\ last.ret = Value_Number(F(7))

\* C12: get_property returns a value for every receiver and key: no read
\* fails
C12_GetPropertyTotal ==
    (vm = "value" /\ last.op = "get_property") => last.ret # PanicValue

(***************************************************************************)
(* The conversions and the operators of the newer model, applied to        *)
(* operands drawn at the start.                                            *)
(***************************************************************************)
\* the element vectors of the array that is converted
ConvElems ==
    {<<>>, <<Value_Number(F(7))>>, <<Value_Bool(TRUE)>>, <<Value_String(<<"1">>)>>,
     <<Value_Undefined>>, <<Value_Number(F(1)), Value_Number(F(2))>>}

\* the operands of the older model's conversions
ConvValues ==
    ValueDomain
    \cup {Value_Number(Inf(FALSE)), Value_Number(Inf(TRUE)), Value_Number(Half),
          Value_Number(F(-1)), Value_Number(F(2)), Value_Number(Fin(TRUE, 0, 1, TRUE)),
          Value_Number(Fin(FALSE, B16, 0, FALSE)), Value_Number(Fin(TRUE, B16, 1, FALSE)),
          Value_String(<<" ">>), Value_String(<<" ", "1">>), Value_String(<<"-", "1">>),
          Value_String(<<"1", ".", "5">>), Value_String(<<"i", "n", "f">>),
          Value_Number(Big(FALSE, 35304, 0)), Value_Number(Big(TRUE, 35304, 0))}

\* the operands of the newer model's operators
Conv2Values ==
    Value2Domain
    \cup {Value2_Number(F(2)), Value2_Number(F(-1)), Value2_Number(NegZero),
          Value2_Number(Half), Value2_Number(Inf(FALSE)), Value2_String(<<>>)}

InitConv ==
    /\ vm \in {"value", "jsvalue"}
    /\ lhs \in (IF vm = "value" THEN ConvValues ELSE Conv2Values)
    /\ rhs \in (IF vm = "value" THEN {Value_Undefined} ELSE Conv2Values)
    /\ \E arr \in (IF lhs = TheArray THEN ConvElems ELSE {<<>>}) : InitHeap(arr)
    /\ ret = [op |-> "none"]

ToBoolean ==
    /\ vm = "value"
    /\ ret' = [op |-> "to_boolean", b |-> Value_to_boolean(lhs)]
    /\ UNCHANGED <<vm, maps, arrays, objs, info, last, lhs, rhs>>

ToBoolean2 ==
    /\ vm = "jsvalue"
    /\ ret' = [op |-> "to_boolean", b |-> Value2_to_boolean(lhs)]
    /\ UNCHANGED <<vm, maps, arrays, objs, info, last, lhs, rhs>>

\* C13: to_boolean is false for Undefined, Null and Empty, b for Bool(b),
\* false for a Number exactly when it is zero or NaN, false for a String
\* exactly when it is empty, and true for every Object, Array and Function
C13_ToBoolean ==
    /\ (vm = "value" /\ ret.op = "to_boolean") =>
          ret.b = CASE lhs.t \in {"Undefined", "Null", "Empty"} -> FALSE
                    [] lhs.t = "Bool" -> lhs.b
                    [] lhs.t = "Number" ->
                          ~(lhs.n \in {F(0), NegZero, NaN})
                    [] lhs.t = "String" -> lhs.s # <<>>
                    [] lhs.t \in {"Object", "Array", "Function", "BuiltinFunction"} -> TRUE
                    [] OTHER -> ret.b
    /\ (vm = "jsvalue" /\ ret.op = "to_boolean") =>
          ret.b = CASE lhs \in {Value2_undefined, Value2_null, Value2_empty} -> FALSE
                    [] lhs.t = "Bool" -> lhs.b = 1
                    [] lhs.t = "Number" -> ~(lhs.n \in {F(0), NegZero, NaN})
                    [] lhs.t = "String" -> lhs.s # <<>>
                    [] lhs.t = "Object" -> TRUE
                    [] OTHER -> ret.b

\* to_string; the decimal expansion of a magnitude of 2^63 or more is
\* not computed
ToStr ==
    /\ vm = "value"
    /\ ~(lhs.t = "Number" /\ lhs.n.k = "big")
    /\ ret' = [op |-> "to_string", s |-> Value_to_string(arrays, lhs)]
    /\ UNCHANGED <<vm, maps, arrays, objs, info, last, lhs, rhs>>

\* C14: to_string of a Number is "NaN" for NaN, "Infinity" for positive
\* and "-Infinity" for negative infinity, and "0" for both zeros
C14_NumberToString ==
    (vm = "value" /\ ret.op = "to_string" /\ lhs.t = "Number") =>
       /\ lhs.n = NaN => ret.s = <<"N", "a", "N">>
       /\ lhs.n = Inf(FALSE) => ret.s = <<"I", "n", "f", "i", "n", "i", "t", "y">>
       /\ lhs.n = Inf(TRUE) => ret.s = <<"-", "I", "n", "f", "i", "n", "i", "t", "y">>
       /\ lhs.n \in {F(0), NegZero} => ret.s = <<"0">>

ToUint32 ==
    /\ vm = "value"
    /\ \E cast \in CastOutcomes :
          ret' = [op |-> "to_uint32", n |-> to_uint32_f64(Value_to_number(arrays, lhs), cast)]
    /\ UNCHANGED <<vm, maps, arrays, objs, info, last, lhs, rhs>>

\* C16: to_uint32 is 0 when to_number is NaN, a zero or an infinity, and
\* otherwise the r in 0..2^32-1 congruent modulo 2^32 to
\* sign(num) * floor(|num|); -1 gives 4294967295 and 4294967296 gives 0
C16_ToUint32 ==
    (vm = "value" /\ ret.op = "to_uint32") =>
       LET num == Value_to_number(arrays, lhs)
           mhi == num.hi % B16
           mlo == num.lo
       IN  /\ ret.n.k = "fin" /\ ~ret.n.neg /\ ~ret.n.half
           /\ ret.n.hi < B16 /\ ret.n.lo < B16
           /\ (num.k \in {"nan", "inf"} \/ num \in {F(0), NegZero}) => ret.n = F(0)
           /\ (num.k \in {"fin", "big"} /\ ~num.neg) => (ret.n.hi = mhi /\ ret.n.lo = mlo)
           /\ (num.k \in {"fin", "big"} /\ num.neg) =>
                  /\ (ret.n.lo + mlo) % B16 = 0
                  /\ (ret.n.hi + mhi + (ret.n.lo + mlo) \div B16) % B16 = 0
           /\ lhs = Value_Number(F(-1)) => ret.n = Fin(FALSE, B16 - 1, B16 - 1, FALSE)
           /\ lhs = Value_Number(Fin(FALSE, B16, 0, FALSE)) => ret.n = F(0)

ToNumber ==
    /\ vm = "value"
    /\ ret' = [op |-> "to_number", n |-> Value_to_number(arrays, lhs)]
    /\ UNCHANGED <<vm, maps, arrays, objs, info, last, lhs, rhs>>

\* C17: to_number is NaN for Undefined, 0 and 1 for false and true, n for
\* Number(n), 0 for a whitespace-only string, NaN for a string that does
\* not parse; for an array it is 0 for length 0, NaN for a length above 1
\* or a sole boolean element, and to_number of the sole element otherwise
C17_ToNumber ==
    (vm = "value" /\ ret.op = "to_number") =>
       /\ lhs.t = "Undefined" => ret.n = NaN
       /\ lhs = Value_Bool(FALSE) => ret.n = F(0)
       /\ lhs = Value_Bool(TRUE) => ret.n = F(1)
       /\ lhs.t = "Number" => ret.n = lhs.n
       /\ (lhs.t = "String" /\ \A i \in 1..Len(lhs.s) : lhs.s[i] = " ") => ret.n = F(0)
       /\ (lhs.t = "String" /\ lhs.s \in {<<"a">>, <<" ", "1">>}) => ret.n = NaN
       /\ lhs = Value_String(<<"1">>) => ret.n = F(1)
       /\ lhs = Value_String(<<"-", "1">>) => ret.n = F(-1)
       /\ lhs = Value_String(<<"1", ".", "5">>) => ret.n = Fin(FALSE, 0, 1, TRUE)
       /\ lhs.t = "Array" =>
             LET ary == arrays[lhs.ptr]
                 sole == ary.elems[1].val
             IN  /\ ary.length = 0 => ret.n = F(0)
                 /\ ary.length > 1 => ret.n = NaN
                 /\ (ary.length = 1 /\ sole.t = "Bool") => ret.n = NaN
                 /\ (ary.length = 1 /\ sole.t # "Bool") =>
                       ret.n = CASE sole = Value_Number(F(7)) -> F(7)
                                 [] sole = Value_String(<<"1">>) -> F(1)
                                 [] sole = Value_Undefined -> NaN
                                 [] OTHER -> Value_to_number(arrays, sole)

\* the array [true] was converted: NaN, although to_number(true) is 1
C17_Witness ==
    /\ vm = "value" /\ ret.op = "to_number"
    /\ lhs = TheArray
    /\ arrays["a1"].length = 1 /\ arrays["a1"].elems[1].val = Value_Bool(TRUE)
    /\ ret.n = NaN

\* C18: to_boolean(Number(to_number(Bool(b)))) is b
C18_BoolRoundTrip ==
    (vm = "value" /\ ret.op = "to_number" /\ lhs.t = "Bool") =>
       Value_to_boolean(Value_Number(ret.n)) = lhs.b

\* false was converted to the number 0, which converts back to false
C18_Witness ==
    /\ vm = "value" /\ ret.op = "to_number"
    /\ lhs = Value_Bool(FALSE)
    /\ ret.n = F(0)
    /\ ~Value_to_boolean(Value_Number(ret.n))

\* a binary operator of Value2 applied to the operands
Binary(op, v) ==
    /\ vm = "jsvalue"
    /\ ret' = [op |-> op, v |-> v]
    /\ UNCHANGED <<vm, maps, arrays, objs, info, last, lhs, rhs>>

Add == Binary("add", Value2_add(lhs, rhs))

Sub == Binary("sub", Value2_sub(lhs, rhs))

\* the operands are no two Numbers whose product (quotient) is finite and
\* no multiple of 1/2, which the f64 of this model do not hold
HoldsProduct(l, r) ==
    (l.t = "Number" /\ r.t = "Number" /\ l.n.k = "fin" /\ r.n.k = "fin") =>
       ~(l.n.half /\ r.n.half)

HoldsQuotient(l, r) ==
    (l.t = "Number" /\ r.t = "Number" /\ l.n.k = "fin" /\ r.n.k = "fin" /\ ~IsZero(r.n)) =>
       (2 * Abs(Twice(l.n))) % Abs(Twice(r.n)) = 0

Mul == HoldsProduct(lhs, rhs) /\ Binary("mul", Value2_mul(lhs, rhs))

Div == HoldsQuotient(lhs, rhs) /\ Binary("div", Value2_div(lhs, rhs))

Rem == \E cast \in CastOutcomes : Binary("rem", Value2_rem(lhs, rhs, cast))

Lt == Binary("lt", Value2_lt(lhs, rhs))

Le == Binary("le", Value2_le(lhs, rhs))

Minus == Binary("minus", Value2_minus(lhs))

\* C20: add, sub, mul, div, rem, lt, le and minus give Undefined unless
\* the operands are Numbers, except add of two Strings, which gives their
\* concatenation; on Numbers they give a Number, lt and le a Bool
C20_Value2Operators ==
    (vm = "jsvalue" /\ ret.op \in {"add", "sub", "mul", "div", "rem", "lt", "le", "minus"}) =>
       LET numbers == lhs.t = "Number" /\ (ret.op = "minus" \/ rhs.t = "Number")
           strings == ret.op = "add" /\ lhs.t = "String" /\ rhs.t = "String"
       IN  /\ numbers => ret.v.t = (IF ret.op \in {"lt", "le"} THEN "Bool" ELSE "Number")
           /\ strings => ret.v = Value2_String(lhs.s \o rhs.s)
           /\ (~numbers /\ ~strings) => ret.v = Value2_undefined

NextConv ==
    \/ ToBoolean
    \/ ToBoolean2
    \/ ToStr
    \/ ToUint32
    \/ ToNumber
    \/ Add
    \/ Sub
    \/ Mul
    \/ Div
    \/ Rem
    \/ Lt
    \/ Le
    \/ Minus

SpecConv == InitConv /\ [][NextConv]_vars

\* the strings of ss joined with single commas
RECURSIVE JoinComma(_)
JoinComma(ss) ==
    IF ss = <<>> THEN <<>>
    ELSE IF Len(ss) = 1 THEN ss[1]
    ELSE ss[1] \o <<",">> \o JoinComma(Tail(ss))

\* C15: to_string of an array is the to_string of its slots 0..length-1
\* joined with single commas, a slot holding Empty giving the empty string
C15_ArrayToString ==
    vm = "value" =>
       LET ary == arrays["a1"]
           str(v) == IF v.t = "Empty" THEN <<>> ELSE Value_to_string(arrays, v)
       IN  Value_to_string(arrays, TheArray)
              = JoinComma([i \in 1..ary.length |-> str(ary.elems[i].val)])

\* C19: set_property(o, k, v) on an ordinary object, a function or a date
\* gives o the own property k holding v, leaves o's other properties,
\* every other map and the arrays as they were, also when a prototype has
\* k, and get_property(o, k) then reads v
C19_WriteIsOwn ==
    vm = "value" =>
      \A o \in ObjRecvs, k \in {STR_x, STR_y}, v \in WVals :
         LET r == set_property(maps, arrays, o, Value_String(k), v)
         IN  /\ r.arrays = arrays
             /\ DOMAIN r.maps = DOMAIN maps
             /\ \A h \in DOMAIN maps \ {o.map} : r.maps[h] = maps[h]
             /\ DOMAIN r.maps[o.map] = DOMAIN maps[o.map] \cup {k}
             /\ \A j \in DOMAIN maps[o.map] \ {k} : r.maps[o.map][j] = maps[o.map][j]
             /\ r.maps[o.map][k].val = v
             /\ get_property(r.maps, r.arrays, o, Value_String(k)) = v

\* x = 7 was written to o1 while OBJECT_PROTOTYPE, on o1's chain, holds
\* x = 9: o1 has its own x, the prototype keeps 9, and o1 reads 7
C19_Witness ==
    /\ vm = "value"
    /\ last.op = "set_property" /\ last.self = TheObject
    /\ last.key = Value_String(STR_x) /\ last.val = Value_Number(F(7))
    /\ STR_x \in DOMAIN maps["OBJECT_PROTOTYPE"]
    /\ maps["OBJECT_PROTOTYPE"][STR_x].val = Value_Number(F(9))
    /\ STR_x \in DOMAIN maps["o1"] /\ maps["o1"][STR_x].val = Value_Number(F(7))
    /\ get_property(maps, arrays, TheObject, Value_String(STR_x)) = Value_Number(F(7))
    /\ get_property(maps, arrays, Value_Object("o2"), Value_String(STR_x)) = Value_Number(F(9))

(***************************************************************************)
(* The operations on the objects of the two value models.                  *)
(***************************************************************************)
\* the values copy_object is applied to; the handle of a copy is one of
\* them once the allocator has given it
HeapRecvs ==
    {Value2_Object(h) : h \in {"h1", "hf"} \cup AllocPool}
    \cup {Value2_Number(F(1)), Value2_undefined}

\* the values written to properties
HeapVals == {Value2_Number(F(7)), Value2_Object("h2")}

Held(v) == v.t = "Object" => v.h \in DOMAIN objs

InitHeapOps ==
    /\ vm \in {"value", "jsvalue"}
    /\ InitHeap(<<>>)
    /\ lhs = Value_Undefined
    /\ rhs = Value_Undefined
    /\ ret = [op |-> "none"]

\* copy_object; the allocator gives handles while it has some
CopyObject(self) ==
    /\ vm = "jsvalue"
    /\ Held(self)
    /\ AllocPool \ DOMAIN objs # {}
    /\ LET r == copy_object(objs, self)
       IN  /\ objs' = r.objs
           /\ last' = [op |-> "copy_object", self |-> self, ret |-> r.ret]
    /\ UNCHANGED <<vm, maps, arrays, info, lhs, rhs, ret>>

SetPropertyByStringKey(self, key, val) ==
    /\ vm = "jsvalue"
    /\ Held(self)
    /\ objs' = set_property_by_string_key(objs, self, key, val)
    /\ last' = [op |-> "set_property_by_string_key", self |-> self, key |-> key,
                val |-> val]
    /\ UNCHANGED <<vm, maps, arrays, info, lhs, rhs, ret>>

\* Value2::set_constructor
SetConstructor2(self, val) ==
    /\ vm = "jsvalue"
    /\ Held(self)
    /\ LET r == Value2_set_constructor(objs, self, val)
       IN  /\ objs' = r.objs
           /\ last' = [op |-> "set_constructor", self |-> self, val |-> val,
                       ret |-> r.ret]
    /\ UNCHANGED <<vm, maps, arrays, info, lhs, rhs, ret>>

\* the values Value::set_constructor is applied to: an object, a function,
\* the prototype object of the function, an array and a number
CtorRecvs == {TheObject, Fn(1, "f1"), Value_Object("f1_prototype"), TheArray,
              Value_Number(F(1))}

\* Value::set_constructor
SetConstructor(self, constructor) ==
    /\ vm = "value"
    /\ maps' = Value_set_constructor(maps, arrays, self, constructor)
    /\ last' = [op |-> "set_constructor", self |-> self, val |-> constructor]
    /\ UNCHANGED <<vm, arrays, objs, info, lhs, rhs, ret>>

\* the values the accessors are applied to
AccRecvs ==
    {Value2_Object("h1"), Value2_Object("hf"), Value2_Number(F(1)),
     Value2_String(<<"a", "b">>), Value2_Bool(1), Value2_undefined}

\* an accessor that leaves the heap alone, and its result
Accessor(op, self, r) ==
    /\ vm = "jsvalue"
    /\ last' = [op |-> op, self |-> self, ret |-> r]
    /\ UNCHANGED <<vm, maps, arrays, objs, info, lhs, rhs, ret>>

AsFunction(self) == Accessor("as_function", self, as_function(objs, self))

GetObjectInfo(self) == Accessor("get_object_info", self, get_object_info(self))

IntoNumber(self) == Accessor("into_number", self, into_number(self))

IntoStr(self) == Accessor("into_str", self, into_str(self))

IntoBool(self) == Accessor("into_bool", self, into_bool(self))

SetFunctionOuterEnvironment(self, env) ==
    /\ vm = "jsvalue"
    /\ LET r == set_function_outer_environment(objs, self, env)
       IN  /\ objs' = r.objs
           /\ last' = [op |-> "set_function_outer_environment", self |-> self,
                       ret |-> r.ret]
    /\ UNCHANGED <<vm, maps, arrays, info, lhs, rhs, ret>>

NextHeapOps ==
    \/ \E v \in AccRecvs : AsFunction(v)
    \/ \E v \in AccRecvs : GetObjectInfo(v)
    \/ \E v \in AccRecvs : IntoNumber(v)
    \/ \E v \in AccRecvs : IntoStr(v)
    \/ \E v \in AccRecvs : IntoBool(v)
    \/ \E v \in AccRecvs : SetFunctionOuterEnvironment(v, "env")
    \/ \E v \in HeapRecvs : CopyObject(v)
    \/ \E v \in {Value2_Object("h1"), Value2_Object("c1"), Value2_Number(F(1))},
          w \in HeapVals : SetPropertyByStringKey(v, STR_x, w)
    \/ \E v \in {Value2_Object("hf"), Value2_Object("c1"), Value2_undefined},
          w \in {Value2_Object("hf")} : SetConstructor2(v, w)
    \/ \E v \in CtorRecvs, w \in {Fn(1, "f1"), Fn(2, "f2")} : SetConstructor(v, w)

SpecHeapOps == InitHeapOps /\ [][NextHeapOps]_vars

\* C21: copy_object on an object gives a handle the heap did not have,
\* whose kind and own properties are those of the original, property
\* values that are handles included, and leaves every object as it was; a
\* write to one object changes no other object, a copy or the original; on
\* a value that is no object copy_object gives the value and allocates
\* nothing
C21_CopyObject ==
    [][/\ (last'.op = "copy_object" /\ last'.self.t = "Object") =>
             /\ last'.ret.t = "Object"
             /\ last'.ret.h # last'.self.h
             /\ last'.ret.h \notin DOMAIN objs
             /\ DOMAIN objs' = DOMAIN objs \cup {last'.ret.h}
             /\ objs'[last'.ret.h].kind = objs[last'.self.h].kind
             /\ objs'[last'.ret.h].property = objs[last'.self.h].property
             /\ \A h \in DOMAIN objs : objs'[h] = objs[h]
       /\ (last'.op = "copy_object" /\ last'.self.t # "Object") =>
             /\ last'.ret = last'.self
             /\ objs' = objs
       /\ (last'.op = "set_property_by_string_key" /\ last'.self.t = "Object") =>
             /\ DOMAIN objs' = DOMAIN objs
             /\ \A h \in DOMAIN objs \ {last'.self.h} : objs'[h] = objs[h]]_vars

\* a copy of h1 was written after the copy and differs from h1, whose
\* __proto__ handle it shares
C21_Witness ==
    /\ last.op = "set_property_by_string_key"
    /\ last.self = Value2_Object("c1")
    /\ STR_x \in DOMAIN objs["c1"].property
    /\ STR_x \notin DOMAIN objs["h1"].property
    /\ objs["c1"].property[STR_proto] = objs["h1"].property[STR_proto]
    /\ objs["c1"].property[STR_proto].val.t = "Object"

\* the map of own properties of an object of the older value model
OwnMap(M, A, v) == M[IF v.t = "Array" THEN A[v.ptr].obj ELSE v.map]

\* C22: after set_constructor(v) on an object its own property
\* "constructor" is a data property of value v that is not enumerable,
\* and its other properties are as before
C22_SetConstructor ==
    [][/\ (vm = "jsvalue" /\ last'.op = "set_constructor" /\ last'.self.t = "Object") =>
             LET p == objs'[last'.self.h].property
                 p0 == objs[last'.self.h].property
             IN  /\ STR_constructor \in DOMAIN p
                 /\ p[STR_constructor].val = last'.val
                 /\ ~p[STR_constructor].enumerable
                 /\ DOMAIN p = DOMAIN p0 \cup {STR_constructor}
                 /\ \A k \in DOMAIN p0 \ {STR_constructor} : p[k] = p0[k]
       /\ (vm = "value" /\ last'.op = "set_constructor"
             /\ last'.self.t \in {"Function", "BuiltinFunction", "Date", "Object", "Array"}) =>
             LET p == OwnMap(maps', arrays', last'.self)
                 p0 == OwnMap(maps, arrays, last'.self)
             IN  /\ STR_constructor \in DOMAIN p
                 /\ p[STR_constructor].val = last'.val
                 /\ ~p[STR_constructor].enumerable
                 /\ DOMAIN p = DOMAIN p0 \cup {STR_constructor}
                 /\ \A k \in DOMAIN p0 \ {STR_constructor} : p[k] = p0[k]]_vars

\* the runtime type an accessor expects of its value
Expected(op, v, O) ==
    CASE op \in {"as_function", "set_function_outer_environment"} ->
            v.t = "Object" /\ O[v.h].kind = "Function"
      [] op = "get_object_info" -> v.t = "Object"
      [] op = "into_number" -> v.t = "Number"
      [] op = "into_str" -> v.t = "String"
      [] op = "into_bool" -> v.t = "Bool"

\* C26: as_function, get_object_info, into_number, into_str, into_bool and
\* set_function_outer_environment panic, and leave every object as it
\* was, on a value that has not the runtime type they expect (for
\* as_function and set_function_outer_environment: on an object that is
\* no function too), and return on a value that has it
C26_NarrowingAccessors ==
    [][last'.op \in {"as_function", "get_object_info", "into_number", "into_str",
                     "into_bool", "set_function_outer_environment"} =>
          IF Expected(last'.op, last'.self, objs)
          THEN last'.ret # PanicValue
          ELSE last'.ret = PanicValue /\ objs' = objs]_vars

\* as_function has panicked on an ordinary object
C26_Witness ==
    /\ last.op = "as_function"
    /\ last.self = Value2_Object("h1")
    /\ last.ret = PanicValue

\* the index a step of set_property or push is to write, -1 if none
WrittenIdx(l, len0) ==
    CASE l.op = "push" -> len0
      [] l.op = "set_property" /\ l.self = TheArray ->
            IF \E i \in 0..(MaxIdx + 1) :
                  l.key \in {Value_Number(F(i)), Value_String(Decimal(i))}
            THEN CHOOSE i \in 0..(MaxIdx + 1) :
                    l.key \in {Value_Number(F(i)), Value_String(Decimal(i))}
            ELSE -1
      [] OTHER -> -1

\* C24: when the array grows, by a write of "length", a write of an
\* index or a push, each index the growth uncovers that the step does not
\* write reads Undefined, never a value of before a shrink
C24_ShrinkTruncates ==
    [][(vm = "value" /\ arrays'["a1"].length > arrays["a1"].length) =>
          \A i \in arrays["a1"].length..(arrays'["a1"].length - 1) :
             i # WrittenIdx(last', arrays["a1"].length) =>
                get_property(maps', arrays', TheArray, Value_Number(F(i))) = Value_Undefined]_vars

\* C27: length never exceeds the number of slots, so elems[0..length],
\* elems[0] when length is 1 and elems[n] for n < length are in bounds
C27_LengthWithinSlots ==
    vm = "value" =>
       \A h \in DOMAIN arrays :
          /\ arrays[h].length <= Len(arrays[h].elems)
          /\ (arrays[h].length = 1 => Len(arrays[h].elems) >= 1)
          /\ \A n \in 0..(arrays[h].length - 1) :
                get_by_idx(arrays, Value_Array(h), n) # PanicValue

\* a write of "length" has made the array longer
C27_Witness ==
    /\ vm = "value"
    /\ last.op = "set_property"
    /\ last.key = KEY_length
    /\ arrays["a1"].length > last.len0

\* C28: push(v) makes length one more, v the value read at the new last
\* index, and leaves the values read at the lower indices as they were
C28_PushAppends ==
    [][(vm = "value" /\ last'.op = "push") =>
          /\ arrays'["a1"].length = arrays["a1"].length + 1
          /\ get_property(maps', arrays', TheArray,
                          Value_Number(F(arrays'["a1"].length - 1))) = last'.val
          /\ \A i \in 0..(arrays["a1"].length - 1) :
                get_property(maps', arrays', TheArray, Value_Number(F(i)))
                   = get_property(maps, arrays, TheArray, Value_Number(F(i)))]_vars

\* C25: set_property leaves a data property that is not writable, of an
\* object or in a slot of an array, with the value and the flags it had
C25_NonWritableKept ==
    [][(vm = "value" /\ last'.op = "set_property") =>
          /\ \A h \in DOMAIN maps : \A k \in DOMAIN maps[h] :
                ~maps[h][k].writable => maps'[h][k] = maps[h][k]
          /\ \A a \in DOMAIN arrays : \A i \in 1..Len(arrays[a].elems) :
                ~arrays[a].elems[i].writable => arrays'[a].elems[i] = arrays[a].elems[i]]_vars

\* C29: eq gives a Bool for every pair of values, and ne gives the Bool
\* that is its negation; neither fails
C29_EqNeTotal ==
    /\ (vm = "jsvalue" /\ ret.op = "eq") => ret.v.t = "Bool"
    /\ (vm = "jsvalue" /\ ret.op = "ne") =>
          /\ ret.v.t = "Bool"
          /\ Value2_eq(lhs, rhs).t = "Bool"
          /\ ret.v.b = 1 - Value2_eq(lhs, rhs).b

\* C30: rem on two Numbers gives a Number, whatever the operands, a zero
\* divisor or one whose integer part is zero included; on integers with a
\* divisor that is not zero it gives the remainder that has the sign of
\* the dividend
C30_RemTotal ==
    (vm = "jsvalue" /\ ret.op = "rem" /\ lhs.t = "Number" /\ rhs.t = "Number") =>
       /\ ret.v.t = "Number"
       /\ (lhs.n.k = "fin" /\ rhs.n.k = "fin" /\ ~lhs.n.half /\ ~rhs.n.half /\ ~IsZero(rhs.n)) =>
             f64_eq(ret.v.n, F((IF lhs.n.neg THEN -1 ELSE 1)
                               * ((Abs(Twice(lhs.n)) \div 2) % (Abs(Twice(rhs.n)) \div 2))))

(***************************************************************************)
(* The parser of expressions (parser.rs).  The lexer is a sequence of      *)
(* tokens and a position p in it: next gives toks[p] and moves on, or Err  *)
(* at the end, unget moves back.  The tokens are numbers and the symbols   *)
(* of the binary operators; a node keeps its operator and operands, not    *)
(* its position in the text.  A result is Ok with the node read and the    *)
(* position after it, Err, or the panic of unimplemented!.                 *)
(***************************************************************************)
Kind_Number(n) == [k |-> "Number", n |-> n]

Kind_Symbol(s) == [k |-> "Symbol", s |-> s]

NodeBase_Number(n) == [t |-> "Number", n |-> n]

NodeBase_BinaryOp(l, r, op) == [t |-> "BinaryOp", l |-> l, r |-> r, op |-> op]

NodeBase_UnaryOp(e, op) == [t |-> "UnaryOp", e |-> e, op |-> op]

ParseOk(node, p) == [t |-> "Ok", node |-> node, pos |-> p]

ParseErr == [t |-> "Err"]

\* Symbol::as_binop
as_binop(s) ==
    CASE s = "Asterisk" -> "Mul"
      [] s = "Mod" -> "Rem"
      [] OTHER -> s

\* the operators of the expression! readers, from read_logical_or_expression
\* (1) to read_multiplicate_expression (10), with additive and
\* multiplicative operators exchanged
LevelOps_exchanged(level) ==
    CASE level = 1 -> {"LOr"}
      [] level = 2 -> {"LAnd"}
      [] level = 3 -> {"Or"}
      [] level = 4 -> {"Xor"}
      [] level = 5 -> {"And"}
      [] level = 6 -> {"Eq", "Ne", "SEq", "SNe"}
      [] level = 7 -> {"Lt", "Gt", "Le", "Ge"}
      [] level = 8 -> {"Shl", "Shr", "ZFShr"}
      [] level = 9 -> {"Asterisk", "Div", "Mod"}
      [] level = 10 -> {"Add", "Sub"}

\* the operators of the expression! readers, from read_logical_or_expression
\* (1) to read_multiplicate_expression (10)
LevelOps(level) ==
    CASE level = 1 -> {"LOr"}
      [] level = 2 -> {"LAnd"}
      [] level = 3 -> {"Or"}
      [] level = 4 -> {"Xor"}
      [] level = 5 -> {"And"}
      [] level = 6 -> {"Eq", "Ne", "SEq", "SNe"}
      [] level = 7 -> {"Lt", "Gt", "Le", "Ge"}
      [] level = 8 -> {"Shl", "Shr", "ZFShr"}
      [] level = 9 -> {"Add", "Sub"}
      [] level = 10 -> {"Asterisk", "Div", "Mod"}

\* read_primary_expression
read_primary_expression(toks, p) ==
    IF p > Len(toks) THEN ParseErr
    ELSE IF toks[p].k = "Number" THEN ParseOk(NodeBase_Number(toks[p].n), p + 1)
    ELSE PanicValue

\* read_call_expression: no token here opens a call, a member or an index
read_call_expression(toks, p) == read_primary_expression(toks, p)

\* read_left_hand_side_expression, read_new_expression
read_left_hand_side_expression(toks, p) == read_call_expression(toks, p)

\* read_update_expression: no token here is ++ or --
read_update_expression(toks, p) ==
    IF p > Len(toks) THEN ParseErr ELSE read_left_hand_side_expression(toks, p)

is_unary_expression(toks, p) ==
    p <= Len(toks) /\ toks[p] \in {Kind_Symbol("Add"), Kind_Symbol("Sub")}

RECURSIVE read_unary_expression(_, _)
read_unary_expression(toks, p) ==
    IF p > Len(toks) THEN ParseErr
    ELSE IF toks[p] \in {Kind_Symbol("Add"), Kind_Symbol("Sub")}
         THEN LET r == read_unary_expression(toks, p + 1)
              IN  IF r.t # "Ok" THEN r
                  ELSE ParseOk(NodeBase_UnaryOp(r.node, IF toks[p].s = "Add" THEN "Plus"
                                                        ELSE "Minus"), r.pos)
    ELSE read_update_expression(toks, p)

\* read_exponentiation_expression
read_exponentiation_expression(toks, p) ==
    IF is_unary_expression(toks, p) THEN read_unary_expression(toks, p)
    ELSE LET lhs_ == read_update_expression(toks, p)
         IN  IF lhs_.t # "Ok" THEN lhs_
             ELSE IF lhs_.pos <= Len(toks) /\ toks[lhs_.pos] = Kind_Symbol("Exp")
                  THEN LET r == read_update_expression(toks, lhs_.pos + 1)
                       IN  IF r.t # "Ok" THEN r
                           ELSE ParseOk(NodeBase_BinaryOp(lhs_.node, r.node, "Exp"), r.pos)
             ELSE lhs_

\* the function the macro expression! defines for a level: $lower is the
\* function of the next level, read_exponentiation_expression below the
\* last; expression_loop is its while loop
RECURSIVE expression(_, _, _)
RECURSIVE expression_loop(_, _, _, _)
expression(level, toks, p) ==
    LET lhs_ == IF level = 10 THEN read_exponentiation_expression(toks, p)
                ELSE expression(level + 1, toks, p)
    IN  IF lhs_.t # "Ok" THEN lhs_ ELSE expression_loop(level, toks, lhs_.node, lhs_.pos)

expression_loop(level, toks, lhs_, p) ==
    IF p > Len(toks) THEN ParseOk(lhs_, p)
    ELSE IF toks[p].k = "Symbol" /\ toks[p].s \in LevelOps(level)
         THEN LET r == IF level = 10 THEN read_exponentiation_expression(toks, p + 1)
                       ELSE expression(level + 1, toks, p + 1)
              IN  IF r.t # "Ok" THEN r
                  ELSE expression_loop(level, toks,
                                       NodeBase_BinaryOp(lhs_, r.node, as_binop(toks[p].s)),
                                       r.pos)
    ELSE ParseOk(lhs_, p)

read_logical_or_expression(toks, p) == expression(1, toks, p)

\* the longest chain of operators drawn, the chain of the test
\* simple_expr_5arith apart
MaxOps == 3

\* the symbols drawn: one operator of each level, and all of the additive
\* and multiplicative ones
ChainOps ==
    {"LOr", "LAnd", "Or", "Xor", "And", "Eq", "Lt", "Shl", "Add", "Sub", "Asterisk",
     "Div", "Mod"}

\* number op number ... op number, the numbers 1, 2, ... in this order
Chains ==
    UNION {{[i \in 1..(2 * k + 1) |->
               IF i % 2 = 1 THEN Kind_Number((i + 1) \div 2) ELSE Kind_Symbol(ops[i \div 2])] :
            ops \in [1..k -> ChainOps]} : k \in 0..MaxOps}

\* 31 + 26 / 3 - 1 * 20 % 3
Arith5 ==
    <<Kind_Number(31), Kind_Symbol("Add"), Kind_Number(26), Kind_Symbol("Div"),
      Kind_Number(3), Kind_Symbol("Sub"), Kind_Number(1), Kind_Symbol("Asterisk"),
      Kind_Number(20), Kind_Symbol("Mod"), Kind_Number(3)>>

\* the token sequences of at most two tokens, and 1 - - 2
ShortInputs ==
    LET T == {Kind_Number(1)} \cup {Kind_Symbol(s) : s \in ChainOps}
    IN  {<<>>} \cup {<<a>> : a \in T} \cup {<<a, b>> : a \in T, b \in T}
        \cup {<<Kind_Number(1), Kind_Symbol("Sub"), Kind_Symbol("Sub"), Kind_Number(2)>>}

\* lhs is the token sequence the lexer gives
InitParse ==
    /\ vm = "value"
    /\ InitHeap(<<>>)
    /\ lhs \in Chains \cup {Arith5} \cup ShortInputs
    /\ rhs = Value_Undefined
    /\ ret = [op |-> "none"]

Parse ==
    /\ ret' = [op |-> "parse", res |-> read_logical_or_expression(lhs, 1)]
    /\ UNCHANGED <<vm, maps, arrays, objs, info, last, lhs, rhs>>

NextParse == Parse

SpecParse == InitParse /\ [][NextParse]_vars

\* how tight an operator binds: multiplicative tightest, then additive,
\* shift, relational, equality, bitwise and, xor, or, logical and, or
Tightness(s) ==
    CASE s \in {"Asterisk", "Div", "Mod"} -> 10
      [] s \in {"Add", "Sub"} -> 9
      [] s \in {"Shl", "Shr", "ZFShr"} -> 8
      [] s \in {"Lt", "Gt", "Le", "Ge"} -> 7
      [] s \in {"Eq", "Ne", "SEq", "SNe"} -> 6
      [] s = "And" -> 5
      [] s = "Xor" -> 4
      [] s = "Or" -> 3
      [] s = "LAnd" -> 2
      [] s = "LOr" -> 1

IsChain(toks) ==
    /\ Len(toks) % 2 = 1
    /\ \A i \in 1..Len(toks) :
          IF i % 2 = 1 THEN toks[i].k = "Number" ELSE toks[i].k = "Symbol"

\* the grouping of a chain: its root is the last of its loosest
\* operators, the operands of the root are the groupings of the chain
\* before it and of the chain after it
RECURSIVE Grouping(_)
Grouping(toks) ==
    IF Len(toks) = 1 THEN NodeBase_Number(toks[1].n)
    ELSE LET ops == {i \in 1..Len(toks) : i % 2 = 0}
             root == CHOOSE i \in ops : \A j \in ops :
                        \/ Tightness(toks[j].s) > Tightness(toks[i].s)
                        \/ (Tightness(toks[j].s) = Tightness(toks[i].s) /\ j <= i)
         IN  NodeBase_BinaryOp(Grouping(SubSeq(toks, 1, root - 1)),
                               Grouping(SubSeq(toks, root + 1, Len(toks))),
                               as_binop(toks[root].s))

\* C23: a chain of binary operators is read to the end and grouped with
\* the operators of one level to the left and those of a tighter level
\* deeper
C23_Precedence ==
    (ret.op = "parse" /\ IsChain(lhs)) =>
       ret.res = ParseOk(Grouping(lhs), Len(lhs) + 1)

\* 31 + 26 / 3 - 1 * 20 % 3 was read as (31 + (26 / 3)) - ((1 * 20) % 3)
C23_Witness ==
    LET N(n) == NodeBase_Number(n)
        B(l, r, op) == NodeBase_BinaryOp(l, r, op)
    IN  /\ lhs = Arith5
        /\ ret.op = "parse"
        /\ ret.res.t = "Ok"
        /\ ret.res.node = B(B(N(31), B(N(26), N(3), "Div"), "Add"),
                            B(B(N(1), N(20), "Mul"), N(3), "Rem"), "Sub")

====
